---------------------------- MODULE Spec2Model ----------------------------
(***************************************************************************)
(* Phase 3 (table compression) of the disk plotter, DiskPlotPhase3.cpp.    *)
(*                                                                         *)
(* The model is a miniature of the program: every width is scaled down so  *)
(* that the state space is finite and small, and the scaling is the same   *)
(* everywhere a width is used.                                             *)
(*      uint32  32 bits        ->  _K bits            (keys, indices)      *)
(*      uint64  64 bits        ->  2 * _K bits        (line points, maps)  *)
(*      lp >> 56 (top 8 bits)  ->  lp >> (2*_K - LPBucketBits)             *)
(*      key >> (32-kExtraBits) ->  key >> (_K - kExtraBits)                *)
(* Arrays of the program are sequences; the C index i is element i + 1.    *)
(* Memory that the program never wrote holds Uninit.  Where the program    *)
(* reads such memory and the value decides what it does next, the value is *)
(* a nondeterministic choice from JunkVals.                                *)
(*                                                                         *)
(* The IO queue executes its commands in FIFO order.  In this              *)
(* specification a command takes effect when it is enqueued; the read      *)
(* fence holds the last id passed to SignalFence, and Fence::Wait is the   *)
(* guard readFence >= id.  The one place where the time of the execution   *)
(* shows is the WriteBuckets of Step 1, which is committed while workers   *)
(* may still be storing to the buffer: there the buffer is written with or *)
(* without the stores of those workers.                                    *)
(***************************************************************************)
EXTENDS Integers, Sequences, FiniteSets, TLC

(***************************************************************************)
(* Program constants (miniature values).                                   *)
(***************************************************************************)
_K == 3
kExtraBits == 1
LPBucketBits == 2
P3_EXTRA_L_ENTRIES_TO_LOAD == 1
Table2 == 2
Table7 == 7

(***************************************************************************)
(* Bounds of the model.                                                    *)
(***************************************************************************)
MaxThreads == 2

RECURSIVE Pow2(_)
Pow2(n) == IF n = 0 THEN 1 ELSE 2 * Pow2(n - 1)

U32 == Pow2(_K)
BB_DP_BUCKET_COUNT == Pow2(kExtraBits)
BB_DPP3_LP_BUCKET_COUNT == Pow2(LPBucketBits)
Uninit == -1

\* What a read of a never-written uint32 may yield: any uint32 value.
JunkVals == 0..(U32 - 1)

(***************************************************************************)
(* Sequence helpers.                                                       *)
(***************************************************************************)
RECURSIVE SumSeq(_)
SumSeq(s) == IF s = <<>> THEN 0 ELSE Head(s) + SumSeq(Tail(s))

RECURSIVE Flatten(_)
Flatten(ss) == IF ss = <<>> THEN <<>> ELSE Head(ss) \o Flatten(Tail(ss))

Fill(n, v) == [i \in 1..n |-> v]

\* s with the elements of t stored from C index at on (a memcpy / a read).
StoreAt(s, at, t) ==
    [i \in 1..Len(s) |-> IF i > at /\ i <= at + Len(t) THEN t[i - at] ELSE s[i]]

Slice(s, from, n) == [i \in 1..n |-> s[from + i]]

Max(a, b) == IF a >= b THEN a ELSE b

(***************************************************************************)
(* Phase 1/2 output consumed by Phase 3 (context and input files).         *)
(***************************************************************************)
\* context.bucketCounts[table][bucket]
bucketCounts == [t \in 1..7 |-> <<3, 3>>]
\* context.ptrTableBucketCounts[table][bucket]
ptrTableBucketCounts == [t \in 2..7 |-> <<3, 2>>]
\* context.entryCounts[table] as Phase 2 leaves it
entryCounts0 == [t \in 1..7 |-> IF t = 1 THEN 6 ELSE 5]
\* FileId::X: the x values of table 1 in y order
XFile == <<7, 2, 5, 0, 6, 3>>
\* The back pointers of an r-table: left (u32) and right offset (u16).
PairsLeftFile == <<0, 1, 2, 0, 1>>
PairsRightFile == <<1, 1, 1, 1, 1>>
\* The r-table maps Phase 3 is run on: each lists every original index once.
RMapChoices == { <<0, 1, 2, 3, 4>>, <<4, 0, 3, 1, 2>>, <<2, 4, 1, 0, 3>> }
\* The marked-entries bitmaps Phase 3 is run on, each the set of its set
\* bits: none and all of the five entries, and bitmaps that prune a part of
\* the first bucket, of the second or of both.
MarkedChoices ==
    { {}, {0}, {1}, {4}, {0, 1}, {1, 2}, {1, 3}, {3, 4}, {0, 1, 2}, {0, 1, 4}, {0, 2, 3},
      {1, 2, 3, 4}, 0..4 }

\* The largest bucket of any table plus the extra l entries (lines 131-149).
maxBucketLength ==
    LET all == { bucketCounts[t][b] : t \in 1..7, b \in 1..BB_DP_BUCKET_COUNT }
               \cup { ptrTableBucketCounts[t][b] : t \in 2..7, b \in 1..BB_DP_BUCKET_COUNT }
    IN  (CHOOSE m \in all : \A o \in all : o <= m) + P3_EXTRA_L_ENTRIES_TO_LOAD

(***************************************************************************)
(* Collaborators whose code is outside src/.                               *)
(***************************************************************************)
\* util: RoundUpToNextBoundary.
RoundUpToNextBoundary(value, boundary) == ((value + boundary - 1) \div boundary) * boundary

\* The block sizes ioQueue.BlockSize() is run with: with the first the
\* buffers of the constructor are a whole number of blocks, with the second
\* they are half a block.
FileBlockSizes == {16, 32}

\* The constructor, lines 158 and 182-183: the number of uint32 slots from
\* _rPrunedMap to _linePoints, the padding to the block size included.
PrunedMapSlots(blockSize) == RoundUpToNextBoundary(maxBucketLength * 4, blockSize) \div 4

\* memplot/LPGen.h SquareToLinePoint: T(max) + min with T(n) = n(n-1)/2.
SquareToLinePointNoSwap(x, y) == (x * (x - 1)) \div 2 + y

SquareToLinePoint(x, y) ==
    LET hi == Max(x, y)
        lo == IF x >= y THEN y ELSE x
    IN  (hi * (hi - 1)) \div 2 + lo

\* BitField::Get
BitFieldGet(marks, i) == i \in marks

\* MTJob: the job ids (the control thread is job 0) and the last thread.
JobIds(tc) == 0..(tc - 1)
IsLastThread(tc, j) == j = tc - 1

\* PrefixSumJob::CalculatePrefixSum, the total per bucket over all workers.
TotalCounts(counts, tc, nb) ==
    [b \in 1..nb |-> SumSeq([j \in 1..tc |-> counts[j][b]])]

\* PrefixSumJob::CalculatePrefixSum, worker j's prefix sums: for bucket b the
\* end of worker j's slot, which is the start of bucket b in the output
\* buffer plus the counts of the workers up to and including j.
CalculatePrefixSum(counts, tc, nb, j) ==
    LET total == TotalCounts(counts, tc, nb)
    IN  [b \in 1..nb |-> SumSeq([c \in 1..(b - 1) |-> total[c]])
                         + SumSeq([i \in 1..(j + 1) |-> counts[i][b]])]

\* RadixSort256::SortWithKey: a stable sort of the (line point, key) pairs on
\* the line point.  The result is the permutation of 1..n it applies.
RECURSIVE InsertSorted(_, _, _)
InsertSorted(perm, lps, i) ==
    IF perm = <<>> THEN <<i>>
    ELSE IF lps[Head(perm)] <= lps[i]
         THEN <<Head(perm)>> \o InsertSorted(Tail(perm), lps, i)
         ELSE <<i>> \o perm

RECURSIVE SortPerm(_, _)
SortPerm(lps, n) ==
    IF n = 0 THEN <<>> ELSE InsertSorted(SortPerm(lps, n - 1), lps, n)

SortWithKey(lps) == SortPerm(lps, Len(lps))


(***************************************************************************)
(* State.                                                                  *)
(***************************************************************************)
VARIABLES
    threadCount,        \* context.threadCount
    rMapIn,             \* the r-table map file (TableIdToMapFileId)
    markedIn,           \* the marked-entries file (set of the set bits)
    fileBlockSize,      \* ioQueue.BlockSize()
    pc,                 \* where the driver thread is
    table,              \* Run's loop variable, the r-table being processed
    bucket,             \* the bucket loop variable of the running step
    entryCounts,        \* context.entryCounts
    prunedEntryCount,   \* _prunedEntryCount
    lpBucketCounts,     \* _lpBucketCounts
    lMapBucketCounts,   \* _lMapBucketCounts
    rTableOffset,       \* _rTableOffset
    readFence,          \* _readFence: the last id signaled
    lEntriesLoaded,     \* TableFirstStep's lEntriesLoaded
    lCursor,            \* read position of the l-input file
    rCursor,            \* read position of the pair and r-map files
    markedEntries,      \* _markedEntries (the bitmap buffer)
    lMap,               \* _lMap[0], _lMap[1]
    rMap,               \* _rMap[0], _rMap[1]
    rTablePairs,        \* _rTablePairs[0], _rTablePairs[1]
    slotBuffer,         \* which of the two memory regions carved for each
                        \* double buffer slot [0] and slot [1] point to
    submitPending,      \* the workers still in the scatter loop of
                        \* DistributeToBuckets when the control thread
                        \* committed the WriteBuckets of the bucket just
                        \* converted (empty once the driver has gone on)
    rPrunedMap,         \* _rPrunedMap and the padding that follows it
    linePoints,         \* _linePoints
    lpFile,             \* lp_<r>: line-point bucket files
    keyFile,            \* lp_key_<r>: key bucket files
    srcFile,            \* history: per element of lpFile, the r-map value
                        \* of the entry that produced the line point
    mapFile,            \* lp_map_<r>: reverse-map bucket files (packed)
    denseFile,          \* lp_map_<r>, bucket 0, as rewritten by Step 3 (u32)
    entryOffset,        \* TableSecondStep's entryOffset
    sortedLinePoints,   \* history: the sorted line points handed downstream
    bucketsLoaded,      \* TableThirdStep's bucketsLoaded
    buffers,            \* TableThirdStep's buffers[]: the loaded buckets
    writeBuffer,        \* TableThirdStep's writeBuffer
    unpacked,           \* history: the buckets Step 3 has unpacked, each with
                        \* its records and the dense output of the job
    fault,              \* a write outside its buffer, or to a buffer already
                        \* written out and released, has happened
    ioError,            \* the error field of the IO queue: a command has failed
    ioLog,              \* history: the commands the IO queue was given, in
                        \* the order it was given (and carries out) them,
                        \* and the calls of GetBuffer among them
    fnArgs,             \* the arguments of a function applied on its own
    fnVals              \* the values the function returned for them

inVars   == <<threadCount, rMapIn, markedIn, fileBlockSize>>
drvVars  == <<pc, table, bucket, entryCounts>>
tblVars  == <<prunedEntryCount, lpBucketCounts, lMapBucketCounts, rTableOffset, readFence>>
s1Vars   == <<lEntriesLoaded, lCursor, rCursor, markedEntries, lMap, rMap, rTablePairs,
             slotBuffer, submitPending>>
memVars  == <<rPrunedMap, linePoints>>
fileVars == <<lpFile, keyFile, srcFile, mapFile, denseFile>>
s2Vars   == <<entryOffset, sortedLinePoints>>
s3Vars   == <<bucketsLoaded, buffers, writeBuffer, unpacked>>
fnVars   == <<fnArgs, fnVals>>
progVars == <<inVars, drvVars, tblVars, s1Vars, memVars, fileVars, s2Vars, s3Vars, fault, ioLog,
             ioError>>
vars == <<progVars, fnVars>>

RTables == Table2..Table7
LPBuckets == 1..BB_DPP3_LP_BUCKET_COUNT
MapBuckets == 1..BB_DP_BUCKET_COUNT

\* The files of the r-tables are kept from the first ProcessTable that uses
\* them on: they are empty until then (the constructor's InitFileSet).
NoFiles == [t \in {} |-> <<>>]
WithTable(files, t, empty) == [u \in DOMAIN files \cup {t} |-> IF u \in DOMAIN files THEN files[u] ELSE empty]

\* The state of the program after the constructor: all of it but the
\* members ProcessTable and TableFirstStep reset for every r-table.
InitButTable ==
    /\ threadCount \in 1..MaxThreads
    /\ rMapIn \in RMapChoices
    /\ markedIn \in MarkedChoices
    /\ fileBlockSize \in FileBlockSizes
    /\ pc = "Run"
    /\ table = Table2
    /\ bucket = 0
    /\ entryCounts = entryCounts0
    /\ lEntriesLoaded = 0
    /\ lCursor = 0
    /\ rCursor = 0
    /\ markedEntries = {}
    /\ lMap = <<Fill(maxBucketLength, Uninit), Fill(maxBucketLength, Uninit)>>
    /\ rMap = <<Fill(maxBucketLength, Uninit), Fill(maxBucketLength, Uninit)>>
    /\ rTablePairs = << [left |-> Fill(maxBucketLength, Uninit), right |-> Fill(maxBucketLength, Uninit)],
                        [left |-> Fill(maxBucketLength, Uninit), right |-> Fill(maxBucketLength, Uninit)] >>
    /\ slotBuffer = <<"region0", "region1">>
    /\ submitPending = {}
    /\ rPrunedMap = Fill(PrunedMapSlots(fileBlockSize), Uninit)
    /\ linePoints = Fill(maxBucketLength, Uninit)
    /\ lpFile = NoFiles
    /\ keyFile = NoFiles
    /\ srcFile = NoFiles
    /\ mapFile = NoFiles
    /\ denseFile = NoFiles
    /\ entryOffset = 0
    /\ sortedLinePoints = <<>>
    /\ bucketsLoaded = 0
    /\ buffers = Fill(BB_DP_BUCKET_COUNT, Uninit)
    /\ writeBuffer = <<>>
    /\ unpacked = <<>>
    /\ fault = FALSE
    /\ ioLog = <<>>
    /\ ioError = FALSE

\* The members that are reset for every r-table.
InitTable ==
    /\ prunedEntryCount = 0
    /\ lpBucketCounts = Fill(BB_DPP3_LP_BUCKET_COUNT, 0)
    /\ lMapBucketCounts = Fill(BB_DP_BUCKET_COUNT, 0)
    /\ rTableOffset = 0
    /\ readFence = 0

InitProgram == InitButTable /\ InitTable

Init ==
    /\ InitProgram
    /\ fnArgs = <<>>
    /\ fnVals = <<>>

(***************************************************************************)
(* Files as the IO queue reads them.                                       *)
(***************************************************************************)
\* A file of packed u64 records read as u32 values (little endian).
U32View(records) ==
    Flatten([i \in 1..Len(records) |->
                IF records[i] = Uninit THEN <<Uninit, Uninit>>
                ELSE <<records[i] % U32, records[i] \div U32>>])

\* Bucket 0 of lp_map_<t> after Step 3 has written over its start.
MapFile0(t) ==
    LET old == U32View(mapFile[t][1])
        new == denseFile[t]
    IN  new \o (IF Len(old) > Len(new) THEN SubSeq(old, Len(new) + 1, Len(old)) ELSE <<>>)

\* TableFirstStep, line 275: the l-input of r-table r.
LInputFile(r) == IF r = Table2 THEN XFile ELSE MapFile0(r - 1)

\* ReadFile: up to n entries of file from position cursor, stored into buf
\* from C index at on.
ReadFile(file, cursor, n, buf, at) ==
    LET got == IF cursor + n <= Len(file) THEN n ELSE Max(0, Len(file) - cursor)
    IN  StoreAt(buf, at, Slice(file, cursor, got))

(***************************************************************************)
(* Step 1: ConvertToLPJob.  A job is the record PointersToLinePoints hands *)
(* to every worker: n (bucketEntryCount), tc (the worker count), marks,    *)
(* lMap, left, right and rMap.                                             *)
(***************************************************************************)
\* ConvertToLPJob::Run: the first row of worker j (bucketOffset).
LPJobOffset(job, j) == (job.n \div job.tc) * j

\* ConvertToLPJob::Run: the row count of worker j; the last takes the rest.
LPJobEntryCount(job, j) ==
    (job.n \div job.tc)
    + (IF IsLastThread(job.tc, j) THEN job.n - (job.n \div job.tc) * job.tc ELSE 0)

\* The rows (C indices) of worker j that both scans keep, in scan order.
Survivors(job, j) ==
    SelectSeq([k \in 1..LPJobEntryCount(job, j) |-> LPJobOffset(job, j) + k - 1],
              LAMBDA i : BitFieldGet(job.marks, job.rMap[i + 1]))

\* The first scan: prunedLength of worker j.
prunedLength(job, j) == Len(Survivors(job, j))

\* A variant of dstOffset that also adds the worker's own pruned length
\* (the loop of lines 483-484 run to i <= jobId).
dstOffsetThroughOwn(job, j) == SumSeq([i \in 1..(j + 1) |-> prunedLength(job, i - 1)])

\* dstOffset of worker j: the pruned lengths of the workers before it.
dstOffset(job, j) == SumSeq([i \in 1..j |-> prunedLength(job, i - 1)])

\* outRMap as the copy loop of worker j leaves it (the loop advances it
\* once per entry kept): the key pointer passed to DistributeToBuckets.
DistributeKeyBase(job, j) == dstOffset(job, j) + prunedLength(job, j)

\* What the copy loop of worker j stores to rMapPruned: the r-map values.
PrunedKeys(job, j) ==
    [k \in 1..prunedLength(job, j) |-> job.rMap[Survivors(job, j)[k] + 1]]

\* The line points worker j computes from its pruned pairs.
LinePointsOf(job, j) ==
    [k \in 1..prunedLength(job, j) |->
        LET i     == Survivors(job, j)[k]
            left  == job.left[i + 1]
            right == (left + job.right[i + 1]) % U32
        IN  SquareToLinePoint(job.lMap[left + 1], job.lMap[right + 1])]

\* A buffer after every worker has stored its part at its dstOffset.
RECURSIVE StoreParts(_, _, _, _)
StoreParts(buf, job, parts, j) ==
    IF j = job.tc THEN buf
    ELSE StoreParts(StoreAt(buf, dstOffset(job, j), parts[j + 1]), job, parts, j + 1)

\* DistributeToBuckets: the bucket of a line point (lp >> 56).
LPBucket(lp) == lp \div Pow2(2 * _K - LPBucketBits)

\* A variant of LPCounts whose counting loop starts at the head of the
\* staged line points instead of the worker's own part.
LPCountsFromHead(job, j) ==
    LET lps == Flatten([i \in 1..job.tc |-> LinePointsOf(job, i - 1)])
    IN  [b \in LPBuckets |->
            Cardinality({k \in 1..prunedLength(job, j) : LPBucket(lps[k]) = b - 1})]

\* DistributeToBuckets: the local counts of worker j.
LPCounts(job, j) ==
    LET lps == LinePointsOf(job, j)
    IN  [b \in LPBuckets |-> Cardinality({k \in 1..Len(lps) : LPBucket(lps[k]) = b - 1})]

LPAllCounts(job) == [i \in 1..job.tc |-> LPCounts(job, i - 1)]

\* A variant of totalPrunedEntryCount that leaves out the loop of lines
\* 580-581 (the pruned counts of the other workers).
totalPrunedOfControlThread(job) == prunedLength(job, 0)

\* DistributeToBuckets, control thread: the pruned count over all workers.
totalPrunedEntryCount(job) ==
    prunedLength(job, 0) + SumSeq([i \in 1..(job.tc - 1) |-> prunedLength(job, i)])

\* A variant of LPDstIndex that stores the elements in their input order,
\* whatever their bucket.
LPDstIndexInOrder(job, j, k) == (dstOffset(job, j) + k - 1) % U32

\* DistributeToBuckets: dstIndex of the k-th line point of worker j, the
\* prefix sum of its bucket decremented once per earlier element of it.
LPDstIndex(job, j, k) ==
    LET lps  == LinePointsOf(job, j)
        b    == LPBucket(lps[k])
        pfx  == CalculatePrefixSum(LPAllCounts(job), job.tc, BB_DPP3_LP_BUCKET_COUNT, j)
        rank == Cardinality({m \in 1..k : LPBucket(lps[m]) = b})
    IN  (pfx[b + 1] - rank) % U32

\* The elements all workers scatter: <<worker, position in its part>>.
LPElements(job) ==
    UNION { { <<j, k>> : k \in 1..prunedLength(job, j) } : j \in JobIds(job.tc) }

\* The slots of rMapPruned the scatter loops read keys from.
KeySlotsRead(job) == { DistributeKeyBase(job, e[1]) + e[2] - 1 : e \in LPElements(job) }

\* The uint32 at slot s counted from rMapPruned (lines 182-183): a slot of
\* _rPrunedMap and its padding (mem) or, past them, a half of a line point
\* of _linePoints, the low half first (words is _linePoints read as uint32).
PrunedMapWord(mem, words, s) ==
    IF s < Len(mem) THEN mem[s + 1] ELSE words[s - Len(mem) + 1]

\* DistributeToBuckets, lines 603-644: the control thread commits the
\* WriteBuckets right after its own scatter loop; the barrier (SyncThreads)
\* comes after the commit.  The other workers that have stores to make may
\* still be in their scatter loops then.
ScatterWorkers(job) == { j \in JobIds(job.tc) \ {0} : prunedLength(job, j) > 0 }

\* For the workers of pending, the numbers of stores to lpOutBuffer (line
\* 610) and to keyOutBuffer (line 611) each has made when the IO thread
\* reads the buffer for its WriteBuckets.  A worker stores the line point of
\* an element, then its key; the IO thread writes lpOutBuffer, then
\* keyOutBuffer.
StoresMade(job, pending) ==
    { made \in [pending -> [lp : 0..job.n, key : 0..job.n]] :
        \A j \in pending : /\ made[j].lp <= prunedLength(job, j)
                           /\ made[j].key <= prunedLength(job, j)
                           /\ made[j].lp <= made[j].key + 1 }

\* The stores that come after the IO thread's read of the buffer.
MissedLPStores(job, made) ==
    { e \in LPElements(job) : e[1] \in DOMAIN made /\ e[2] > made[e[1]].lp }

MissedKeyStores(job, made) ==
    { e \in LPElements(job) : e[1] \in DOMAIN made /\ e[2] > made[e[1]].key }

\* lpOutBuffer, keyOutBuffer (of each key the slot of rMapPruned it was
\* read from) and, as history, the r-map value of the entry behind each
\* line point, as the IO thread reads them for WriteBuckets.  The slot of a store
\* that comes after that read still holds what GetBuffer returned.
ScatterOut(job, made) ==
    LET atLP(idx)  == { e \in LPElements(job) \ MissedLPStores(job, made) :
                          LPDstIndex(job, e[1], e[2]) = idx }
        atKey(idx) == { e \in LPElements(job) \ MissedKeyStores(job, made) :
                          LPDstIndex(job, e[1], e[2]) = idx }
        pickLP(idx)  == CHOOSE e \in atLP(idx) : TRUE
        pickKey(idx) == CHOOSE e \in atKey(idx) : TRUE
        total == totalPrunedEntryCount(job)
    IN  [ lp  |-> [i \in 1..total |-> IF atLP(i - 1) = {} THEN Uninit
                       ELSE LinePointsOf(job, pickLP(i - 1)[1])[pickLP(i - 1)[2]]],
          slot |-> [i \in 1..total |-> IF atKey(i - 1) = {} THEN Uninit
                       ELSE DistributeKeyBase(job, pickKey(i - 1)[1]) + pickKey(i - 1)[2] - 1],
          src |-> [i \in 1..total |-> IF atLP(i - 1) = {} THEN Uninit
                       ELSE PrunedKeys(job, pickLP(i - 1)[1])[pickLP(i - 1)[2]]] ]

\* WriteBuckets: slice b of buf, of length sizes[b], is appended to bucket b.
WriteBuckets(file, buf, sizes) ==
    [b \in 1..Len(sizes) |->
        file[b] \o [i \in 1..sizes[b] |->
                      LET at == SumSeq(SubSeq(sizes, 1, b - 1)) + i
                      IN  IF at <= Len(buf) THEN buf[at] ELSE Uninit]]

(***************************************************************************)
(* The commands of the IO queue.  A command that moves data names the file *)
(* set, the r-table it belongs to and the bucket argument (WriteBuckets    *)
(* writes every bucket of the file set: -1); buffer and at are the memory  *)
(* region and the offset in it (in entries) where a read of Step 1 stores. *)
(***************************************************************************)
Command(cmd, file, t, b) ==
    [cmd |-> cmd, file |-> file, table |-> t, bucket |-> b, buffer |-> "", at |-> 0]

\* A read command with the memory it stores to.
Into(c, buffer, at) == [c EXCEPT !.buffer = buffer, !.at = at]

\* ioQueue.SignalFence( readFence, id ).
SignalFence(t, id) == Command("SignalFence", "readFence", t, id)

\* The id of the last SignalFence of a batch of commands: under FIFO
\* execution the value of the fence once the batch is carried out.
LastSignaled(cmds) ==
    LET at == { i \in 1..Len(cmds) : cmds[i].cmd = "SignalFence" }
    IN  cmds[CHOOSE i \in at : \A j \in at : j <= i].bucket

\* DiskBufferQueue: the commands are carried out in the order of their
\* submission.
CommitCommands(log, cmds) == log \o cmds

\* TableFirstStep, line 298 (the first bucket, read to _lMap[0]) and line
\* 336 (a later bucket, read to _lMap[1] + P3_EXTRA_L_ENTRIES_TO_LOAD): the
\* offset at which the l-values read are stored.
LReadOffsetZero(first) == 0

LReadOffset(first) == IF first THEN 0 ELSE P3_EXTRA_L_ENTRIES_TO_LOAD

\* TableFirstStep, lines 298-308 and 336-343: the reads of one bucket into
\* the region a slot points to, and the SignalFence that follows them.
FirstStepReads(t, first, region, id) ==
    <<Into(Command("ReadFile", "L_MAP", t, 0), region, LReadOffset(first))>>
    \o (IF first THEN <<Command("ReadFile", "MARKED", t, 0)>> ELSE <<>>)
    \o <<Into(Command("ReadFile", "R_PTRS_R", t, 0), region, 0),
         Into(Command("ReadFile", "R_PTRS_L", t, 0), region, 0),
         Into(Command("ReadFile", "R_MAP", t, 0), region, 0),
         SignalFence(t, id)>>

\* DistributeToBuckets, lines 632-640: no command is submitted.
DistributeWritesDropped(t) == <<>>

\* DistributeToBuckets, lines 632-640.
DistributeWrites(t) ==
    <<Command("WriteBuckets", "LP", t, -1), Command("WriteBuckets", "LP_KEY", t, -1)>>

\* Step2FenceId (lines 57-68).
Step2FenceCount == 3
Step2LPLoaded == 1
Step2MapLoaded == 2

\* TableSecondStep, LoadBucket, lines 690-698.
SecondStepReads(t, b) ==
    <<Command("ReadFile", "LP", t, b),
      SignalFence(t, Step2LPLoaded + b * Step2FenceCount),
      Command("ReadFile", "LP_KEY", t, b),
      SignalFence(t, Step2MapLoaded + b * Step2FenceCount)>>

\* WriteLPReverseLookup, lines 823-826.
ReverseLookupWrites(t) == <<Command("WriteBuckets", "LP_MAP", t, -1)>>

\* TableThirdStep, LoadBucket, lines 990-992.
ThirdStepReads(t, b) == <<Command("ReadFile", "LP_MAP", t, b), SignalFence(t, b + 1)>>

\* TableThirdStep, lines 1060-1062.
ThirdStepWrites(t) == <<Command("WriteFile", "LP_MAP", t, 0)>>

\* ioQueue.GetBuffer (a call that returns the buffer at once; the log keeps
\* its place among the commands) and ioQueue.ReleaseBuffer (a command), for
\* the buffer the code holds in the variable called name while it works on
\* bucket b of r-table t.
GetBuffer(name, t, b) == Into(Command("GetBuffer", "", t, b), name, 0)
ReleaseBuffer(name, t, b) == Into(Command("ReleaseBuffer", "", t, b), name, 0)

\* The buffers of the IO queue a command reads from or stores to.
BuffersUsed(c) ==
    IF c.cmd = "WriteBuckets" /\ c.file = "LP" THEN {"lpOutBuffer", "lpSizes"}
    ELSE IF c.cmd = "WriteBuckets" /\ c.file = "LP_KEY" THEN {"keyOutBuffer", "keySizes"}
    ELSE IF c.cmd = "ReadFile" /\ c.file = "LP" THEN {"linePoints"}
    ELSE IF c.cmd = "ReadFile" /\ c.file = "LP_KEY" THEN {"key"}
    ELSE IF c.cmd = "WriteBuckets" /\ c.file = "LP_MAP" THEN {"outMap", "bucketCounts"}
    ELSE IF c.cmd = "ReadFile" /\ c.file = "LP_MAP" THEN {"buffer"}
    ELSE IF c.cmd = "WriteFile" /\ c.file = "LP_MAP" THEN {"writeBuffer"}
    ELSE {}

\* DistributeToBuckets, lines 588-589 and 618-640: the calls of the control
\* thread on the IO queue for r-bucket b.
DistributeCommands(t, b) ==
    LET writes == DistributeWrites(t)
    IN  <<GetBuffer("lpOutBuffer", t, b), GetBuffer("keyOutBuffer", t, b),
          GetBuffer("lpSizes", t, b), GetBuffer("keySizes", t, b)>>
        \o (IF Len(writes) >= 1 THEN <<writes[1]>> ELSE <<>>)
        \o <<ReleaseBuffer("lpOutBuffer", t, b), ReleaseBuffer("lpSizes", t, b)>>
        \o (IF Len(writes) >= 2 THEN <<writes[2]>> ELSE <<>>)
        \o <<ReleaseBuffer("keyOutBuffer", t, b), ReleaseBuffer("keySizes", t, b)>>

\* TableSecondStep, LoadBucket, lines 687-698.
SecondStepLoad(t, b) ==
    <<GetBuffer("linePoints", t, b), GetBuffer("key", t, b)>> \o SecondStepReads(t, b)

\* TableSecondStep, lines 744-746, and WriteLPReverseLookup, lines 787-788
\* (the calls that precede the run of the WriteLPMapJob workers) and
\* 823-826, for line-point bucket b.
ReverseLookupBuffers(t, b) ==
    <<ReleaseBuffer("linePoints", t, b), ReleaseBuffer("key", t, b),
      GetBuffer("outMap", t, b), GetBuffer("bucketCounts", t, b)>>

ReverseLookupCommands(t, b) ==
    ReverseLookupBuffers(t, b)
    \o ReverseLookupWrites(t)
    \o <<ReleaseBuffer("outMap", t, b), ReleaseBuffer("bucketCounts", t, b)>>

\* TableThirdStep, LoadBucket, lines 986-992.
ThirdStepLoad(t, b) == <<GetBuffer("buffer", t, b)>> \o ThirdStepReads(t, b)

\* TableThirdStep, lines 1059-1062, for bucket b.
ThirdStepCommands(t, b) ==
    <<ReleaseBuffer("buffer", t, b)>> \o ThirdStepWrites(t) \o <<ReleaseBuffer("writeBuffer", t, b)>>

\* TableFirstStep, line 292: the number of l-values requested for the first
\* bucket (a uint32), lCounts being context.bucketCounts[lTable].
FirstLBucketLength(lCounts) == (lCounts[1] + P3_EXTRA_L_ENTRIES_TO_LOAD) % U32

\* TableFirstStep, lines 328-331: the number of l-values requested for
\* bucket nextBucket, lTotal being context.entryCounts[lTable] and loaded
\* lEntriesLoaded; the difference is cast to uint32.
NextLBucketLengthNoCast(lCounts, lTotal, nextBucket, loaded) ==
    IF nextBucket = BB_DP_BUCKET_COUNT - 1 THEN lTotal - loaded ELSE lCounts[nextBucket + 1]

NextLBucketLength(lCounts, lTotal, nextBucket, loaded) ==
    IF nextBucket = BB_DP_BUCKET_COUNT - 1
      THEN (lTotal - loaded) % U32
      ELSE lCounts[nextBucket + 1]

\* TableFirstStep, lines 288-333: the numbers of l-values requested for the
\* buckets from nextBucket on, loaded being lEntriesLoaded.
RECURSIVE LRequestsFrom(_, _, _, _)
LRequestsFrom(lCounts, lTotal, nextBucket, loaded) ==
    IF nextBucket >= BB_DP_BUCKET_COUNT THEN <<>>
    ELSE LET lBucketLength == NextLBucketLength(lCounts, lTotal, nextBucket, loaded)
         IN  <<lBucketLength>>
             \o LRequestsFrom(lCounts, lTotal, nextBucket + 1, loaded + lBucketLength)

\* The numbers of l-values TableFirstStep requests, bucket by bucket.
LRequests(lCounts, lTotal) ==
    <<FirstLBucketLength(lCounts)>>
    \o LRequestsFrom(lCounts, lTotal, 1, FirstLBucketLength(lCounts))

\* ProcessTable, lines 226-227: memset( counts, 0, sizeof( counts ) ).
ResetCountsKept(counts) == counts

ResetCounts(counts) == Fill(Len(counts), 0)

\* TableFirstStep, lines 355-357: std::swap of slots [0] and [1].
SwapOmitted(pair) == pair

Swap(pair) == <<pair[2], pair[1]>>

\* Run, line 206: the loop condition.
RunLoopCondition(t) == t < Table7

(***************************************************************************)
(* The driver: Run and ProcessTable.                                       *)
(***************************************************************************)
\* Run's loop head and the start of ProcessTable (lines 206-230).
Run ==
    /\ pc = "Run"
    /\ IF RunLoopCondition(table)
         THEN /\ pc' = "TableFirstStep"
              /\ prunedEntryCount' = 0
              /\ lpBucketCounts' = ResetCounts(lpBucketCounts)
              /\ lMapBucketCounts' = ResetCounts(lMapBucketCounts)
              /\ readFence' = 0
              /\ lpFile' = WithTable(lpFile, table, Fill(BB_DPP3_LP_BUCKET_COUNT, <<>>))
              /\ keyFile' = WithTable(keyFile, table, Fill(BB_DPP3_LP_BUCKET_COUNT, <<>>))
              /\ srcFile' = WithTable(srcFile, table, Fill(BB_DPP3_LP_BUCKET_COUNT, <<>>))
              /\ mapFile' = WithTable(mapFile, table, Fill(BB_DP_BUCKET_COUNT, <<>>))
              /\ denseFile' = WithTable(denseFile, table, <<>>)
         ELSE /\ pc' = "Done"
              /\ UNCHANGED <<prunedEntryCount, lpBucketCounts, lMapBucketCounts, readFence,
                             fileVars>>
    /\ UNCHANGED <<fnVars, ioError, inVars, table, bucket, entryCounts, rTableOffset, s1Vars, memVars,
                   s2Vars, s3Vars, fault, ioLog>>

(***************************************************************************)
(* Step 1.                                                                 *)
(***************************************************************************)
\* TableFirstStep up to its bucket loop (lines 263-314): the seeks, the
\* reads of the first bucket and SignalFence( readFence, 1 ).
TableFirstStep ==
    /\ pc = "TableFirstStep"
    /\ LET lTable        == table - 1
           lBucketLength == FirstLBucketLength(bucketCounts[lTable])
           rBucketLength == ptrTableBucketCounts[table][1]
       IN  /\ lEntriesLoaded' = lBucketLength
           /\ lMap' = <<ReadFile(LInputFile(table), 0, lBucketLength, lMap[1], LReadOffset(TRUE)),
                        lMap[2]>>
           /\ lCursor' = lBucketLength
           /\ markedEntries' = markedIn
           /\ rTablePairs' =
                << [left  |-> ReadFile(PairsLeftFile, 0, rBucketLength, rTablePairs[1].left, 0),
                    right |-> ReadFile(PairsRightFile, 0, rBucketLength, rTablePairs[1].right, 0)],
                   rTablePairs[2] >>
           /\ rMap' = <<ReadFile(rMapIn, 0, rBucketLength, rMap[1], 0), rMap[2]>>
           /\ rCursor' = rBucketLength
    /\ LET cmds == FirstStepReads(table, TRUE, slotBuffer[1], 1)
       IN  /\ ioLog' = CommitCommands(ioLog, cmds)
           /\ readFence' = LastSignaled(cmds)
    /\ rTableOffset' = 0
    /\ bucket' = 0
    /\ pc' = "FirstStepLoadNext"
    /\ UNCHANGED <<fnVars, ioError, inVars, table, entryCounts, prunedEntryCount, lpBucketCounts,
                   lMapBucketCounts, memVars, fileVars, s2Vars, s3Vars, fault, slotBuffer,
                   submitPending>>

\* TableFirstStep, the head of a loop iteration (lines 319-346): the reads of
\* the next bucket into slot [1] and SignalFence( readFence, nextBucket + 1 ).
FirstStepLoadNext ==
    /\ pc = "FirstStepLoadNext"
    /\ IF bucket # BB_DP_BUCKET_COUNT - 1
         THEN LET lTable        == table - 1
                  nextBucket    == bucket + 1
                  lBucketLength == NextLBucketLength(bucketCounts[lTable], entryCounts[lTable],
                                                     nextBucket, lEntriesLoaded)
                  cmds          == FirstStepReads(table, FALSE, slotBuffer[2], nextBucket + 1)
                  rBucketLength == ptrTableBucketCounts[table][nextBucket + 1]
              IN  /\ lEntriesLoaded' = lEntriesLoaded + lBucketLength
                  /\ lMap' = <<lMap[1], ReadFile(LInputFile(table), lCursor, lBucketLength,
                                                 lMap[2], LReadOffset(FALSE))>>
                  /\ lCursor' = lCursor + lBucketLength
                  /\ rTablePairs' =
                       << rTablePairs[1],
                          [left  |-> ReadFile(PairsLeftFile, rCursor, rBucketLength,
                                              rTablePairs[2].left, 0),
                           right |-> ReadFile(PairsRightFile, rCursor, rBucketLength,
                                              rTablePairs[2].right, 0)] >>
                  /\ rMap' = <<rMap[1], ReadFile(rMapIn, rCursor, rBucketLength, rMap[2], 0)>>
                  /\ rCursor' = rCursor + rBucketLength
                  /\ ioLog' = CommitCommands(ioLog, cmds)
                  /\ readFence' = LastSignaled(cmds)
         ELSE UNCHANGED <<lEntriesLoaded, lMap, lCursor, rTablePairs, rMap, rCursor, readFence,
                          ioLog>>
    /\ submitPending' = {}
    /\ pc' = "BucketFirstStep"
    /\ UNCHANGED <<fnVars, ioError, inVars, table, bucket, entryCounts, prunedEntryCount, lpBucketCounts,
                   lMapBucketCounts, rTableOffset, markedEntries, memVars, fileVars,
                   s2Vars, s3Vars, fault, slotBuffer>>

\* PointersToLinePoints: the job record of the current bucket.
CurrentJob ==
    [ n     |-> ptrTableBucketCounts[table][bucket + 1],
      tc    |-> threadCount,
      marks |-> markedEntries,
      lMap  |-> lMap[1],
      left  |-> rTablePairs[1].left,
      right |-> rTablePairs[1].right,
      rMap  |-> rMap[1] ]

\* TableFirstStep, line 352: the memcpy of the last P3_EXTRA_L_ENTRIES_TO_LOAD
\* entries of the current l-window (they follow its count entries) to the
\* head of the next one.
CopyLastLEntriesFromHead(cur, next, count) ==
    StoreAt(next, 0, Slice(cur, 0, P3_EXTRA_L_ENTRIES_TO_LOAD))

CopyLastLEntries(cur, next, count) ==
    StoreAt(next, 0, Slice(cur, count, P3_EXTRA_L_ENTRIES_TO_LOAD))

\* BucketFirstStep (lines 362-399) and the rest of the loop iteration (lines
\* 351-357): the wait for the bucket, the ConvertToLPJob run on it, the two
\* WriteBuckets, the copy of the last l entries and the swap.  The values
\* the job computes are bound once (a one-element set each); pending, made
\* and junk are the choices the run of the job leaves open.
BucketFirstStep ==
    /\ pc = "BucketFirstStep"
    /\ readFence >= bucket + 1
    /\ ioLog' = CommitCommands(ioLog, DistributeCommands(table, bucket))
    /\ lMap' = Swap(<< lMap[1],
                       CopyLastLEntries(lMap[1], lMap[2], bucketCounts[table - 1][bucket + 1]) >>)
    /\ rMap' = Swap(rMap)
    /\ rTablePairs' = Swap(rTablePairs)
    /\ slotBuffer' = Swap(slotBuffer)
    /\ bucket' = bucket + 1
    /\ \E job \in {CurrentJob} :
       \E staged \in {StoreParts(rPrunedMap, job, [i \in 1..job.tc |-> PrunedKeys(job, i - 1)], 0)},
          lps    \in {StoreParts(linePoints, job, [i \in 1..job.tc |-> LinePointsOf(job, i - 1)], 0)},
          sizes  \in {TotalCounts(LPAllCounts(job), job.tc, BB_DPP3_LP_BUCKET_COUNT)},
          pending \in SUBSET ScatterWorkers(job) :
       \E words \in {U32View(lps)},
          unknown \in {{ s \in KeySlotsRead(job) : s < Len(staged) /\ staged[s + 1] = Uninit }},
          made \in StoresMade(job, pending) :
       \E out \in {ScatterOut(job, made)},
          raced \in {MissedLPStores(job, made) \cup MissedKeyStores(job, made) # {}} :
         /\ submitPending' = pending
         /\ fault' = raced
         /\ pc' = IF raced THEN "Fault"
                  ELSE IF bucket + 1 < BB_DP_BUCKET_COUNT
                         THEN "FirstStepLoadNext" ELSE "TableSecondStep"
         /\ linePoints' = lps
         /\ lpBucketCounts' = [b \in LPBuckets |-> lpBucketCounts[b] + sizes[b]]
         /\ prunedEntryCount' = prunedEntryCount + (totalPrunedEntryCount(job) % U32)
         /\ rTableOffset' = rTableOffset + job.n
         /\ lpFile'  = [lpFile  EXCEPT ![table] = WriteBuckets(@, out.lp, sizes)]
         /\ srcFile' = [srcFile EXCEPT ![table] = WriteBuckets(@, out.src, sizes)]
         /\ \E junk \in [unknown -> JunkVals] :
              LET mem == [s \in 1..Len(staged) |->
                            IF (s - 1) \in unknown THEN junk[s - 1] ELSE staged[s]]
                  key == [i \in 1..Len(out.slot) |->
                            IF out.slot[i] = Uninit THEN Uninit
                            ELSE PrunedMapWord(mem, words, out.slot[i])]
              IN  /\ rPrunedMap' = mem
                  /\ keyFile' = [keyFile EXCEPT ![table] = WriteBuckets(@, key, sizes)]
    /\ UNCHANGED <<fnVars, ioError, inVars, table, entryCounts, lMapBucketCounts, readFence, lEntriesLoaded,
                   lCursor, rCursor, markedEntries, mapFile, denseFile, s2Vars, s3Vars>>

(***************************************************************************)
(* Data races and writes outside a buffer.  When several workers store to  *)
(* one index without synchronization any of the stores may be the last.    *)
(* A store outside the buffer, and a store to a buffer the IO thread has   *)
(* already written out and released, is undefined behaviour: the model     *)
(* records it in fault and follows the program no further.                 *)
(***************************************************************************)
\* The sequences of length n whose i-th element is one of cand[i].
RECURSIVE SeqsOf(_, _)
SeqsOf(cand, n) ==
    IF n = 0 THEN {<<>>}
    ELSE { Append(s, v) : s \in SeqsOf(cand, n - 1), v \in cand[n] }

(***************************************************************************)
(* Step 2: WriteLPMapJob.  A job is the record WriteLPReverseLookup hands  *)
(* to every worker: n (entryCount), tc, inKey and entryOffset.             *)
(***************************************************************************)
\* WriteLPMapJob::Run: offset, the first key of worker j.
MapJobOffset(job, j) == (job.n \div job.tc) * j

\* A variant of MapJobEntries in which the last worker does not take the
\* rest of the division (lines 838-839 left out).
MapJobEntriesNoRest(job, j) == job.n \div job.tc

\* WriteLPMapJob::Run: entriesPerThread of worker j; the last takes the rest.
MapJobEntries(job, j) ==
    (job.n \div job.tc)
    + (IF IsLastThread(job.tc, j) THEN job.n - (job.n \div job.tc) * job.tc ELSE 0)

\* WriteLPMapJob::Run: the bucket of a key (key >> bitShift).
MapBucket(key) == key \div Pow2(_K - kExtraBits)

\* WriteLPMapJob::Run, the counting loop (lines 852-856): it starts at the
\* member inKey (the local inKey + offset is declared after it, line 863)
\* and runs over entriesPerThread keys.
MapCountedKeys(job, j) == [k \in 1..MapJobEntries(job, j) |-> job.inKey[k]]

\* WriteLPMapJob::Run, the keys worker j writes (lines 863-868).
MapWrittenKeys(job, j) ==
    [k \in 1..MapJobEntries(job, j) |-> job.inKey[MapJobOffset(job, j) + k]]

MapCounts(job, j) ==
    LET keys == MapCountedKeys(job, j)
    IN  [b \in MapBuckets |-> Cardinality({k \in 1..Len(keys) : MapBucket(keys[k]) = b - 1})]

MapAllCounts(job) == [i \in 1..job.tc |-> MapCounts(job, i - 1)]

\* A variant of MapWriteIdx that fills the slice of a worker from its start
\* upwards (writeIdx = pfxSum[bucket]++ on start offsets).
MapWriteIdxAscending(job, j, k) ==
    LET keys == MapWrittenKeys(job, j)
        b    == MapBucket(keys[k])
        pfx  == CalculatePrefixSum(MapAllCounts(job), job.tc, BB_DP_BUCKET_COUNT, j)
        rank == Cardinality({m \in 1..k : MapBucket(keys[m]) = b})
    IN  (pfx[b + 1] - MapCounts(job, j)[b + 1] + rank - 1) % U32

\* WriteLPMapJob::Run: writeIdx of the k-th key of worker j.
MapWriteIdx(job, j, k) ==
    LET keys == MapWrittenKeys(job, j)
        b    == MapBucket(keys[k])
        pfx  == CalculatePrefixSum(MapAllCounts(job), job.tc, BB_DP_BUCKET_COUNT, j)
        rank == Cardinality({m \in 1..k : MapBucket(keys[m]) = b})
    IN  (pfx[b + 1] - rank) % U32

\* WriteLPMapJob::Run: the packed record of the k-th key of worker j,
\* ((entryOffset + i) << 32) | key.
MapRecord(job, j, k) ==
    (job.entryOffset + MapJobOffset(job, j) + (k - 1)) * U32 + MapWrittenKeys(job, j)[k]

MapElements(job) ==
    UNION { { <<j, k>> : k \in 1..MapJobEntries(job, j) } : j \in JobIds(job.tc) }

\* Some worker writes outside outMap (the assertion of line 872 fails).
MapWritesOutside(job) ==
    \E e \in MapElements(job) : MapWriteIdx(job, e[1], e[2]) >= job.n

\* The keys of worker j whose record is stored to C index idx of outMap.
MapStoresAt(job, j, idx) ==
    { k \in 1..MapJobEntries(job, j) : MapWriteIdx(job, j, k) = idx }

\* The values C index idx of outMap can hold after the job: of each worker
\* that stores to it, the record of its last store (a worker stores in the
\* order of its keys); Uninit when no worker does (GetBuffer hands out
\* memory as it is).
MapCandidates(job, idx) ==
    LET writers == { j \in JobIds(job.tc) : MapStoresAt(job, j, idx) # {} }
        last(j) == CHOOSE k \in MapStoresAt(job, j, idx) :
                       \A m \in MapStoresAt(job, j, idx) : m <= k
    IN  IF writers = {} THEN {Uninit} ELSE { MapRecord(job, j, last(j)) : j \in writers }

\* The key and the sorted position of a packed record.
RecordKey(m) == m % U32
RecordPos(m) == m \div U32

(***************************************************************************)
(* Step 2.                                                                 *)
(***************************************************************************)
\* TableSecondStep, lines 724-725: the fence id the driver waits for before
\* it sorts bucket b.
Step2FenceLPLoaded(b) == Step2LPLoaded + b * Step2FenceCount

Step2Fence(b) == Step2MapLoaded + b * Step2FenceCount

\* TableSecondStep up to its bucket loop (lines 653-707).
TableSecondStep ==
    /\ pc = "TableSecondStep"
    /\ entryOffset' = 0
    /\ ioLog' = CommitCommands(ioLog, SecondStepLoad(table, 0))
    /\ readFence' = LastSignaled(SecondStepLoad(table, 0))
    /\ bucket' = 0
    /\ pc' = "SecondStepLoadNext"
    /\ submitPending' = {}
    /\ UNCHANGED <<fnVars, ioError, inVars, table, entryCounts, prunedEntryCount, lpBucketCounts,
                   lMapBucketCounts, rTableOffset, lEntriesLoaded, lCursor, rCursor,
                   markedEntries, lMap, rMap, rTablePairs, slotBuffer, memVars, fileVars,
                   sortedLinePoints, s3Vars, fault>>

\* TableSecondStep, the head of a loop iteration (lines 711-720).
SecondStepLoadNext ==
    /\ pc = "SecondStepLoadNext"
    /\ readFence' = IF bucket # BB_DPP3_LP_BUCKET_COUNT - 1
                      THEN LastSignaled(SecondStepLoad(table, bucket + 1)) ELSE readFence
    /\ ioLog' = IF bucket # BB_DPP3_LP_BUCKET_COUNT - 1
                  THEN CommitCommands(ioLog, SecondStepLoad(table, bucket + 1)) ELSE ioLog
    /\ pc' = "SecondStepBucket"
    /\ UNCHANGED <<fnVars, ioError, inVars, table, bucket, entryCounts, prunedEntryCount, lpBucketCounts,
                   lMapBucketCounts, rTableOffset, s1Vars, memVars, fileVars, s2Vars,
                   s3Vars, fault>>

\* TableSecondStep and WriteLPReverseLookup (lines 727-749, 789-806): the
\* job record of the current bucket, the keys in the order of the sort.
CurrentMapJob ==
    LET bucketLength == lpBucketCounts[bucket + 1]
        inLPs  == Slice(lpFile[table][bucket + 1], 0, bucketLength)
        inKeys == Slice(keyFile[table][bucket + 1], 0, bucketLength)
        perm   == SortWithKey(inLPs)
    IN  [ n |-> bucketLength, tc |-> threadCount,
          inKey |-> [i \in 1..bucketLength |-> inKeys[perm[i]]],
          entryOffset |-> entryOffset ]

\* TableSecondStep, the rest of a loop iteration (lines 722-753): the wait,
\* the sort, WriteLPReverseLookup and its WriteBuckets.
SecondStepBucket ==
    /\ pc = "SecondStepBucket"
    /\ readFence >= Step2Fence(bucket)
    /\ \E bucketLength \in {lpBucketCounts[bucket + 1]} :
       \E inLPs \in {Slice(lpFile[table][bucket + 1], 0, bucketLength)},
          job   \in {CurrentMapJob} :
       \E perm  \in {SortWithKey(inLPs)},
          sizes \in {TotalCounts(MapAllCounts(job), job.tc, BB_DP_BUCKET_COUNT)} :
           /\ linePoints' = StoreAt(linePoints, 0, [i \in 1..bucketLength |-> inLPs[perm[i]]])
           /\ rPrunedMap' = StoreAt(rPrunedMap, 0, job.inKey)
           /\ sortedLinePoints' = sortedLinePoints \o [i \in 1..bucketLength |-> inLPs[perm[i]]]
           /\ IF MapWritesOutside(job)
                THEN /\ fault' = TRUE
                     /\ pc' = "Fault"
                     /\ ioLog' = CommitCommands(ioLog, ReverseLookupBuffers(table, bucket))
                     /\ UNCHANGED <<mapFile, lMapBucketCounts, entryOffset, bucket>>
                ELSE /\ \E outMap \in SeqsOf([i \in 1..bucketLength |-> MapCandidates(job, i - 1)],
                                                 bucketLength) :
                          mapFile' = [mapFile EXCEPT ![table] = WriteBuckets(@, outMap, sizes)]
                     /\ ioLog' = CommitCommands(ioLog, ReverseLookupCommands(table, bucket))
                     /\ lMapBucketCounts' = [b \in MapBuckets |-> lMapBucketCounts[b] + sizes[b]]
                     /\ entryOffset' = entryOffset + bucketLength
                     /\ bucket' = bucket + 1
                     /\ pc' = IF bucket + 1 < BB_DPP3_LP_BUCKET_COUNT
                                THEN "SecondStepLoadNext" ELSE "TableThirdStep"
                     /\ UNCHANGED fault
    /\ UNCHANGED <<fnVars, ioError, inVars, table, entryCounts, prunedEntryCount, lpBucketCounts, rTableOffset,
                   readFence, s1Vars, lpFile, keyFile, srcFile, denseFile, s3Vars>>

(***************************************************************************)
(* Step 3: LPUnpackMapJob.  A job is the record RunJob hands to every      *)
(* worker: bucket, n (entryCount), tc and mapSrc; size is the number of    *)
(* u32 entries of mapDst (the write buffer).                               *)
(***************************************************************************)
\* TableThirdStep / LPUnpackMapJob::Run: 2^k / BB_DP_BUCKET_COUNT.
fixedBucketSize == (Pow2(_K) \div BB_DP_BUCKET_COUNT) % U32

\* TableThirdStep, line 966.
lastBucketSize(tableEntryCount) ==
    (tableEntryCount - fixedBucketSize * (BB_DP_BUCKET_COUNT - 1)) % U32

\* A variant of writeEntryCount that takes the last-bucket size for every
\* bucket.
writeEntryCountLast(b, tableEntryCount) == lastBucketSize(tableEntryCount)

\* TableThirdStep, line 1016.
writeEntryCount(b, tableEntryCount) ==
    IF b + 1 = BB_DP_BUCKET_COUNT THEN lastBucketSize(tableEntryCount) ELSE fixedBucketSize

\* LPUnpackMapJob::Run: offset and entriesPerThread of worker j.
UnpackJobOffset(job, j) == (job.n \div job.tc) * j
UnpackJobEntries(job, j) ==
    (job.n \div job.tc)
    + (IF IsLastThread(job.tc, j) THEN job.n - (job.n \div job.tc) * job.tc ELSE 0)

UnpackElements(job) ==
    UNION { { UnpackJobOffset(job, j) + k : k \in 1..UnpackJobEntries(job, j) } :
            j \in JobIds(job.tc) }

\* LPUnpackMapJob::Run: idx = (uint32)m - bucketOffset of a record; a record
\* is <<low 32 bits, high 32 bits>> here.
UnpackIdx(job, rec) == (rec[1] - fixedBucketSize * job.bucket) % U32

\* Some worker writes outside mapDst.
UnpackWritesOutside(job, size) ==
    \E i \in UnpackElements(job) : UnpackIdx(job, job.mapSrc[i]) >= size

\* The elements of worker j whose record is stored to C index idx of mapDst.
UnpackStoresAt(job, j, idx) ==
    { e \in { UnpackJobOffset(job, j) + k : k \in 1..UnpackJobEntries(job, j) } :
        UnpackIdx(job, job.mapSrc[e]) = idx }

\* The values C index idx of mapDst can hold after the job: of each worker
\* that stores to it, the value of its last store; Uninit when no worker
\* does (the write buffer is handed out as it is).
UnpackCandidates(job, idx) ==
    LET writers == { j \in JobIds(job.tc) : UnpackStoresAt(job, j, idx) # {} }
        last(j) == CHOOSE e \in UnpackStoresAt(job, j, idx) :
                       \A f \in UnpackStoresAt(job, j, idx) : f <= e
    IN  IF writers = {} THEN {Uninit} ELSE { job.mapSrc[last(j)][2] : j \in writers }

(***************************************************************************)
(* Step 3.                                                                 *)
(***************************************************************************)
\* TableThirdStep up to its bucket loop (lines 950-1004): the fence reset
\* and the one call of LoadBucket, which reads bucket bucketsLoaded = 0 and
\* signals fence id 1.
TableThirdStep ==
    /\ pc = "TableThirdStep"
    /\ buffers' = [Fill(BB_DP_BUCKET_COUNT, Uninit) EXCEPT
                     ![1] = Slice(mapFile[table][1], 0, lMapBucketCounts[1])]
    /\ ioLog' = CommitCommands(ioLog, ThirdStepLoad(table, 0))
    /\ readFence' = LastSignaled(ThirdStepLoad(table, 0))
    /\ bucketsLoaded' = 1
    /\ bucket' = 0
    /\ pc' = "ThirdStepReserve"
    /\ UNCHANGED <<fnVars, ioError, inVars, table, entryCounts, prunedEntryCount, lpBucketCounts,
                   lMapBucketCounts, rTableOffset, s1Vars, memVars, fileVars, s2Vars,
                   writeBuffer, unpacked, fault>>

\* TableThirdStep, the head of a loop iteration (lines 1010-1019): the write
\* buffer is reserved.  The block that loaded the next bucket (lines
\* 1021-1031) is commented out in the source.
ThirdStepReserve ==
    /\ pc = "ThirdStepReserve"
    /\ writeBuffer' = Fill(writeEntryCount(bucket, entryCounts[table]), Uninit)
    /\ ioLog' = ioLog \o <<GetBuffer("writeBuffer", table, bucket)>>
    /\ pc' = "ThirdStepWait"
    /\ UNCHANGED <<fnVars, ioError, inVars, table, bucket, entryCounts, tblVars, s1Vars, memVars, fileVars,
                   s2Vars, bucketsLoaded, buffers, unpacked, fault>>

\* TableThirdStep, the rest of a loop iteration (lines 1033-1062): the wait
\* for fence id nextBucket, the unpack job and the write of its output; after
\* the last bucket, the end of ProcessTable (lines 250-255) and of the body
\* of Run's loop.
ThirdStepBucket ==
    /\ pc = "ThirdStepWait"
    /\ readFence >= bucket + 1
    /\ \E holes \in {{ i \in 1..Len(buffers[bucket + 1]) : buffers[bucket + 1][i] = Uninit }} :
           \E junk \in [holes -> JunkVals] :
           \E job \in {[ bucket |-> bucket, n |-> lMapBucketCounts[bucket + 1],
                          tc |-> threadCount,
                          mapSrc |-> [i \in 1..Len(buffers[bucket + 1]) |->
                                        IF i \in holes THEN <<junk[i], Uninit>>
                                        ELSE <<RecordKey(buffers[bucket + 1][i]),
                                               RecordPos(buffers[bucket + 1][i])>>] ]},
              size \in {Len(writeBuffer)} :
                 \E dense \in SeqsOf([i \in 1..size |-> UnpackCandidates(job, i - 1)], size) :
                   /\ unpacked' = Append(unpacked, [bucket |-> bucket, mapSrc |-> job.mapSrc,
                                                    mapDst |-> dense])
                   /\ IF UnpackWritesOutside(job, size)
                        THEN /\ fault' = TRUE
                             /\ pc' = "Fault"
                             /\ UNCHANGED <<denseFile, bucket, entryCounts, table, ioLog>>
                        ELSE /\ denseFile' = [denseFile EXCEPT ![table] = @ \o dense]
                             /\ ioLog' = CommitCommands(ioLog, ThirdStepCommands(table, bucket))
                             /\ bucket' = bucket + 1
                             /\ UNCHANGED fault
                             /\ IF bucket + 1 < BB_DP_BUCKET_COUNT
                                  THEN /\ pc' = "ThirdStepReserve"
                                       /\ UNCHANGED <<entryCounts, table>>
                                  ELSE /\ entryCounts' = [entryCounts EXCEPT ![table] = prunedEntryCount]
                                       /\ table' = table + 1
                                       /\ pc' = "Run"
    /\ UNCHANGED <<fnVars, ioError, inVars, tblVars, s1Vars, memVars, lpFile, keyFile, srcFile, mapFile,
                   s2Vars, bucketsLoaded, buffers, writeBuffer>>

Next ==
    \/ Run \/ TableFirstStep \/ FirstStepLoadNext \/ BucketFirstStep
    \/ TableSecondStep \/ SecondStepLoadNext \/ SecondStepBucket
    \/ TableThirdStep \/ ThirdStepReserve \/ ThirdStepBucket

Spec == Init /\ [][Next]_vars

(***************************************************************************)
(* IO failure.  In Spec every command of the IO queue succeeds.  Here one  *)
(* of the commands the queue was given may fail: the queue sets its error  *)
(* field.  No line of Run, ProcessTable or the three steps reads the       *)
(* field, so the driver goes on as before.                                 *)
(***************************************************************************)
IOFailure ==
    /\ ~ioError
    /\ ioLog # <<>>
    /\ pc \notin {"Done", "Fault"}
    /\ ioError' = TRUE
    /\ UNCHANGED <<fnVars, inVars, drvVars, tblVars, s1Vars, memVars, fileVars, s2Vars,
                   s3Vars, fault, ioLog>>

NextWithIOFailure == Next \/ IOFailure

SpecWithIOFailure == Init /\ [][NextWithIOFailure]_vars

(***************************************************************************)
(* Functions applied on their own.  The program stays in its initial state *)
(* with fixed inputs; the arguments are drawn from bounded sets and the    *)
(* one action applies the function to them.                                *)
(***************************************************************************)
InitIdle ==
    /\ InitProgram
    /\ threadCount = 1
    /\ rMapIn = <<0, 1, 2, 3, 4>>
    /\ markedIn = {}
    /\ fileBlockSize = 32
    /\ fnVals = <<>>

\* ConvertToLPJob::Run, lines 522-530: SquareToLinePoint on two pairs of
\* l-values.
InitLP ==
    /\ InitIdle
    /\ fnArgs \in [x : 0..(U32 - 1), y : 0..(U32 - 1), u : 0..(U32 - 1), v : 0..(U32 - 1)]

ApplyLP ==
    /\ fnVals = <<>>
    /\ fnVals' = <<SquareToLinePoint(fnArgs.x, fnArgs.y), SquareToLinePoint(fnArgs.u, fnArgs.v)>>
    /\ UNCHANGED <<progVars, fnArgs>>

SpecLP == InitLP /\ [][ApplyLP]_vars

(***************************************************************************)
(* The constructor's carving of the heap (lines 150-196).  Sizes are in    *)
(* bytes; an argument record holds maxBucketLength (after the addition of  *)
(* P3_EXTRA_L_ENTRIES_TO_LOAD), the block size of the IO queue, the size   *)
(* of the marked bitmap and the size of the whole heap.                    *)
(***************************************************************************)
HeapMaxLength == 4
HeapMaxBlockBits == 3
HeapMaxSlack == 3

\* Lines 157-162.
markedEntriesSize(a)    == a.bitFieldSize
rTableMapBucketSize(a)  == RoundUpToNextBoundary(a.maxBucketLength * 4, a.fileBlockSize)
rTableLPtrBucketSize(a) == RoundUpToNextBoundary(a.maxBucketLength * 4, a.fileBlockSize)
rTableRPtrBucketSize(a) == RoundUpToNextBoundary(a.maxBucketLength * 2, a.fileBlockSize)
lTableBucketSize(a)     == RoundUpToNextBoundary(a.maxBucketLength * 4, a.fileBlockSize)
lpBucketSize(a)         == RoundUpToNextBoundary(a.maxBucketLength * 8, a.fileBlockSize)

\* Lines 164-183: the sizes of the buffers in the order they are carved:
\* _markedEntries, _rMap[0], _rMap[1], _rTablePairs[0].left, [1].left,
\* [0].right, [1].right, _lMap[0], _lMap[1], _rPrunedMap, _linePoints.
CarvedSizes(a) ==
    << markedEntriesSize(a),
       rTableMapBucketSize(a), rTableMapBucketSize(a),
       rTableLPtrBucketSize(a), rTableLPtrBucketSize(a),
       rTableRPtrBucketSize(a), rTableRPtrBucketSize(a),
       lTableBucketSize(a), lTableBucketSize(a),
       rTableMapBucketSize(a),
       lpBucketSize(a) >>

\* The offset of heap from context.heapBuffer after the last carving.
heapAfterCarving(a) == SumSeq(CarvedSizes(a))

\* Lines 185-190.
totalSize(a) ==
    markedEntriesSize(a)
    + rTableMapBucketSize(a) * 3
    + rTableLPtrBucketSize(a) * 2
    + rTableRPtrBucketSize(a) * 2
    + lpBucketSize(a)

\* Lines 193-194.
heapRemainder(a) == a.fullHeapSize - totalSize(a)

\* The heaps given to the constructor hold every carved buffer.
HeapArgs ==
    { [maxBucketLength |-> n, fileBlockSize |-> Pow2(k), bitFieldSize |-> 8 * w,
       fullHeapSize |-> heapAfterCarving([maxBucketLength |-> n, fileBlockSize |-> Pow2(k),
                                           bitFieldSize |-> 8 * w]) + s * Pow2(k)] :
      n \in 1..HeapMaxLength, k \in 0..HeapMaxBlockBits, w \in 1..2, s \in 0..HeapMaxSlack }

InitHeap ==
    /\ InitIdle
    /\ fnArgs \in HeapArgs

\* Line 196: ioQueue.ResetHeap( heapRemainder, heap ).
ResetHeap ==
    /\ fnVals = <<>>
    /\ fnVals' = [heap |-> heapAfterCarving(fnArgs), heapSize |-> heapRemainder(fnArgs)]
    /\ UNCHANGED <<progVars, fnArgs>>

SpecHeap == InitHeap /\ [][ResetHeap]_vars

(***************************************************************************)
(* The l-lengths TableFirstStep requests (lines 288-333), for the bucket   *)
(* counts and the entry count of any l-table: the counts are uint32 values *)
(* that leave room for P3_EXTRA_L_ENTRIES_TO_LOAD, and the entry count is  *)
(* at most their sum (it is their sum for table 1, and the pruned count    *)
(* for a later table).                                                     *)
(***************************************************************************)
LLengthArgs ==
    { [lCounts |-> <<a, b>>, lTotal |-> n] :
        a \in 0..(U32 - 1 - P3_EXTRA_L_ENTRIES_TO_LOAD), b \in 0..(U32 - 1), n \in 0..(U32 - 1) }

InitLLength ==
    /\ InitIdle
    /\ fnArgs \in { a \in LLengthArgs : SumSeq(a.lCounts) < U32 /\ a.lTotal <= SumSeq(a.lCounts) }

ApplyLLength ==
    /\ fnVals = <<>>
    /\ fnVals' = LRequests(fnArgs.lCounts, fnArgs.lTotal)
    /\ UNCHANGED <<progVars, fnArgs>>

SpecLLength == InitLLength /\ [][ApplyLLength]_vars

(***************************************************************************)
(* The check of a debug build in BucketFirstStep (lines 378-384), for the  *)
(* pairs of any bucket, also pairs that leave the l-window.  The check     *)
(* reads the pair at index bucketEntryCountR - 1; for a bucket without     *)
(* entries the index wraps and the read is far outside the buffers: it may *)
(* yield any value, or stop the program where no memory is mapped (then    *)
(* no ASSERT is evaluated).                                                *)
(***************************************************************************)
DebugMaxEntries == 2
DebugMaxPtr == 3

\* The pair the check reads: the last of the bucket.
DebugCheckedPair(n, left, right, junk) ==
    IF n > 0 THEN [left |-> left[n], right |-> right[n]]
    ELSE [left |-> junk[1], right |-> junk[2]]

\* ASSERT( r < lTableBucketLength ) fails.
DebugCheckFails(n, left, right, lCount, junk) ==
    LET pair == DebugCheckedPair(n, left, right, junk)
        r    == (pair.left + pair.right) % U32
        lTableBucketLength == (lCount + P3_EXTRA_L_ENTRIES_TO_LOAD) % U32
    IN  ~(r < lTableBucketLength)

DebugArgs ==
    UNION { [n : {n}, left : [1..n -> 0..DebugMaxPtr], right : [1..n -> 0..DebugMaxPtr],
             lCount : {bucketCounts[1][1]}] : n \in 0..DebugMaxEntries }

InitDebugCheck ==
    /\ InitIdle
    /\ fnArgs \in DebugArgs

\* The index of the pair the check reads is outside the buffers.
DebugReadOutside(n) == (n - 1) % U32 >= n

ApplyDebugCheck ==
    /\ fnVals = <<>>
    /\ \/ \E junk \in [1..2 -> JunkVals] :
             fnVals' = [failed  |-> DebugCheckFails(fnArgs.n, fnArgs.left, fnArgs.right,
                                                    fnArgs.lCount, junk),
                        crashed |-> FALSE]
       \/ /\ DebugReadOutside(fnArgs.n)
          /\ fnVals' = [failed |-> FALSE, crashed |-> TRUE]
    /\ UNCHANGED <<progVars, fnArgs>>

SpecDebugCheck == InitDebugCheck /\ [][ApplyDebugCheck]_vars

(***************************************************************************)
(* The start of an r-iteration (lines 224-230 and 263-314) whatever values *)
(* the members it resets hold: the constructor (lines 100-197) gives them  *)
(* no value, and an iteration leaves its counts in them.                   *)
(***************************************************************************)
ResetMaxLeft == 1

InitReset ==
    /\ InitButTable
    /\ threadCount = 1
    /\ rMapIn = <<0, 1, 2, 3, 4>>
    /\ markedIn = {}
    /\ fileBlockSize = 32
    /\ prunedEntryCount \in 0..ResetMaxLeft
    /\ lpBucketCounts \in [LPBuckets -> 0..ResetMaxLeft]
    /\ lMapBucketCounts \in [MapBuckets -> 0..ResetMaxLeft]
    /\ rTableOffset \in 0..ResetMaxLeft
    /\ readFence \in 0..ResetMaxLeft
    /\ fnArgs = <<>>
    /\ fnVals = <<>>

NextReset == Run \/ TableFirstStep

SpecReset == InitReset /\ [][NextReset]_vars

(***************************************************************************)
(* StackAllocator (util/StackAllocator.h).  size_t is scaled to            *)
(* SizeTBits bits.  fnArgs holds the capacity given to the constructor and *)
(* fnVals the calls made so far, each with the offset of the region it     *)
(* returned from _buffer, whether one of its assertions failed, and _size  *)
(* after it; a failed assertion ends the program.                          *)
(***************************************************************************)
SizeTBits == 5
AllocMaxCapacity == 6
AllocMaxSize == 5
AllocMaxCalls == 2

SizeT == Pow2(SizeTBits)
Alignments == {1, 2, 4, 8}

\* util: RoundUpToNextBoundaryT on size_t.
RoundUpToNextBoundaryT(value, boundary) == RoundUpToNextBoundary(value, boundary) % SizeT

\* _size after the calls made (line 51: it starts at 0).
AllocatorSize(calls) == IF calls = <<>> THEN 0 ELSE calls[Len(calls)].sizeAfter

\* StackAllocator::Alloc, lines 15-28, _size being size0.
Alloc(size0, capacity, size, alignment) ==
    LET paddedSize == RoundUpToNextBoundaryT(size0, alignment)
    IN  [ failed    |-> ~(/\ size > 0
                          /\ size0 < capacity
                          /\ (capacity - paddedSize) % SizeT >= size),
          offset    |-> paddedSize,
          size      |-> size,
          alignment |-> alignment,
          sizeAfter |-> (paddedSize + size) % SizeT ]

\* StackAllocator::CAlloc, lines 38-45, for a type of elemSize bytes.
CAlloc(size0, capacity, elemSize, count, alignment) ==
    LET allocSize == (elemSize * count) % SizeT
        call      == Alloc(size0, capacity, allocSize, alignment)
    IN  IF allocSize > count THEN call ELSE [call EXCEPT !.failed = TRUE]

AllocatorRunning ==
    /\ Len(fnVals) < AllocMaxCalls
    /\ \A k \in 1..Len(fnVals) : ~fnVals[k].failed

InitAllocator ==
    /\ InitIdle
    /\ fnArgs \in [capacity : 1..AllocMaxCapacity]

CallAlloc ==
    /\ AllocatorRunning
    /\ \E size \in 0..AllocMaxSize, alignment \in Alignments :
          fnVals' = Append(fnVals, Alloc(AllocatorSize(fnVals), fnArgs.capacity, size, alignment))
    /\ UNCHANGED <<progVars, fnArgs>>

CallCAlloc ==
    /\ AllocatorRunning
    /\ \E elemSize \in {1, 2, 4}, count \in 0..AllocMaxSize, alignment \in Alignments :
          fnVals' = Append(fnVals, CAlloc(AllocatorSize(fnVals), fnArgs.capacity, elemSize,
                                          count, alignment))
    /\ UNCHANGED <<progVars, fnArgs>>

NextAllocator == CallAlloc \/ CallCAlloc

SpecAllocator == InitAllocator /\ [][NextAllocator]_vars

(***************************************************************************)
(* Properties.                                                             *)
(***************************************************************************)
AfterStep1 == {"TableSecondStep", "SecondStepLoadNext", "SecondStepBucket",
               "TableThirdStep", "ThirdStepReserve", "ThirdStepWait"}
AfterStep2 == {"TableThirdStep", "ThirdStepReserve", "ThirdStepWait"}

\* The r-map lists each original index of the table exactly once.
IsPermutation(m) == \A v \in 0..(Len(m) - 1) : Cardinality({i \in 1..Len(m) : m[i] = v}) = 1

\* The elements Step 1 wrote for r-table t: the line point, the key stored
\* with it and the r-map value of the entry the line point came from.
Step1Elements(t) ==
    UNION { { [lp |-> lpFile[t][b][i], key |-> keyFile[t][b][i], src |-> srcFile[t][b][i]] :
              i \in 1..Len(lpFile[t][b]) } : b \in LPBuckets }

\* The records of all reverse-map buckets of r-table t.
MapRecords(t) ==
    UNION { { <<b, i>> : i \in 1..Len(mapFile[t][b]) } : b \in MapBuckets }

\* The driver is in a Fence::Wait for an id that no command signals: every
\* command the driver has enqueued has been carried out, so it stays there.
DriverBlocked == pc = "ThirdStepWait" /\ readFence < bucket + 1

\* C1: Run processes every r-table from 2 through 7, one after the other:
\* the driver comes to rest (Run has returned, or the driver is blocked for
\* good) only after the iteration of each of them has run its three steps
\* and published its entry count (the loop variable has passed it).
C1_EveryTableProcessed ==
    (pc = "Done" \/ DriverBlocked) => \A r \in RTables : r < table

\* C2: once Step 1 has run over all buckets of an r-table whose r-map is a
\* permutation, the pruned entry count equals the number of set bits of the
\* marked bitmap, for every worker count.
C2_PruneConservation ==
    (pc \in AfterStep1 /\ IsPermutation(rMapIn)) => prunedEntryCount = Cardinality(markedIn)

C2_Witness ==
    /\ pc = "TableSecondStep"
    /\ threadCount = 2
    /\ prunedEntryCount = 3
    /\ 4 \in markedIn

\* C3: after Step 2 the sum of lpBucketCounts equals the pruned entry count,
\* which equals the sum of lMapBucketCounts, for every worker count.
C3_BucketSumConservation ==
    pc \in AfterStep2 =>
        /\ SumSeq(lpBucketCounts) = prunedEntryCount
        /\ SumSeq(lMapBucketCounts) = prunedEntryCount

C3_Witness ==
    /\ pc = "TableThirdStep"
    /\ threadCount = 2
    /\ lpBucketCounts[1] = 3
    /\ lpBucketCounts[2] = 2
    /\ lMapBucketCounts[1] > 0
    /\ lMapBucketCounts[2] > 0

\* C4: after Step 2, for every surviving original r-index i (with the line
\* point Step 1 computed from its pair) the reverse map holds exactly one
\* record with key i, and the sorted position in its high half holds that
\* line point.
C4_RoundTrip ==
    pc \in AfterStep2 =>
        \A e \in Step1Elements(table) :
            LET recs == { r \in MapRecords(table) :
                            /\ mapFile[table][r[1]][r[2]] # Uninit
                            /\ RecordKey(mapFile[table][r[1]][r[2]]) = e.src }
            IN  /\ Cardinality(recs) = 1
                /\ \A r \in recs :
                     LET p == RecordPos(mapFile[table][r[1]][r[2]])
                     IN  p < Len(sortedLinePoints) /\ sortedLinePoints[p + 1] = e.lp

\* C5: every element Step 1 writes to the line-point and key bucket files
\* carries the r-map value of the entry that produced its line point.
C5_KeyIsOriginalIndex ==
    \A t \in DOMAIN keyFile : \A e \in Step1Elements(t) : e.key = e.src

\* C6: every line point Step 1 stores in line-point bucket b has b in its
\* top bits (lp >> 56 == b).
C6_LinePointBucketKey ==
    \A t \in DOMAIN lpFile : \A b \in LPBuckets : \A i \in 1..Len(lpFile[t][b]) :
        \/ lpFile[t][b][i] = Uninit
        \/ lpFile[t][b][i] \div Pow2(2 * _K - LPBucketBits) = b - 1

C6_Witness ==
    /\ pc = "TableSecondStep"
    /\ threadCount = 2
    /\ Len(lpFile[table][1]) = 3
    /\ Len(lpFile[table][2]) = 2

\* C7: every record Step 2 stores in reverse-map bucket b has b in the top
\* kExtraBits of its key (its low half), for every worker count.
C7_MapBucketKey ==
    \A t \in DOMAIN mapFile : \A r \in MapRecords(t) :
        \/ mapFile[t][r[1]][r[2]] = Uninit
        \/ RecordKey(mapFile[t][r[1]][r[2]]) \div Pow2(_K - kExtraBits) = r[1] - 1

\* C8: when Step 3 waits for reverse-map bucket b, the read of bucket b has
\* been issued (and with it the signal of fence id b + 1).
C8_WaitedBucketWasRead == pc = "ThirdStepWait" => bucketsLoaded >= bucket + 1

\* C9: for every record of a bucket Step 3 unpacks, idx lies inside the
\* write buffer and the write buffer holds the record's high half at idx
\* after the job.
C9_UnpackStoresEveryRecord ==
    \A u \in 1..Len(unpacked) : \A i \in 1..Len(unpacked[u].mapSrc) :
        LET idx == (unpacked[u].mapSrc[i][1] - fixedBucketSize * unpacked[u].bucket) % U32
        IN  /\ idx < Len(unpacked[u].mapDst)
            /\ unpacked[u].mapDst[idx + 1] = unpacked[u].mapSrc[i][2]

\* Step 3 has written the output of a bucket of r-table t to its map file.
Step3HasWritten == pc \in {"ThirdStepReserve", "ThirdStepWait"} /\ bucket >= 1

\* C10 as the specification states it: with an all-zero marked bitmap the
\* pruned count is 0, every line-point and reverse-map bucket is empty and
\* the l-input file Step 3 produces has zero-length contents.
C10_ZeroLengthOutput ==
    (markedIn = {} /\ Step3HasWritten) =>
        /\ prunedEntryCount = 0
        /\ \A b \in LPBuckets : lpFile[table][b] = <<>>
        /\ \A b \in MapBuckets : mapFile[table][b] = <<>>
        /\ Len(MapFile0(table)) = 0

\* C10: with an all-zero marked bitmap the pruned count is 0 and every
\* line-point and reverse-map bucket is empty; the l-input file Step 3
\* produces is not empty: every bucket Step 3 writes adds its whole write
\* buffer (2^k / bucketCount entries for a bucket that is not the last), and
\* none of these entries was stored by the unpack job.
C10_UnpopulatedOutput ==
    (markedIn = {} /\ Step3HasWritten) =>
        /\ prunedEntryCount = 0
        /\ \A b \in LPBuckets : lpFile[table][b] = <<>>
        /\ \A b \in MapBuckets : mapFile[table][b] = <<>>
        /\ Len(MapFile0(table)) = bucket * (Pow2(_K) \div BB_DP_BUCKET_COUNT)
        /\ \A i \in 1..Len(MapFile0(table)) : MapFile0(table)[i] = Uninit

C10_Witness ==
    /\ markedIn = {}
    /\ pc = "ThirdStepWait"
    /\ bucket = 1
    /\ threadCount = 2
    /\ Len(denseFile[table]) > 0

\* The reference of C11: the whole l-table in memory, and the line point of
\* the r-entry e (its index in the r-table) of r-table t read from it.  The
\* entry lies in r-bucket RBucketOf(t, e); its pair is relative to the first
\* l-entry of that bucket.
RBucketOf(t, e) ==
    CHOOSE b \in MapBuckets :
        /\ SumSeq(SubSeq(ptrTableBucketCounts[t], 1, b - 1)) <= e
        /\ e < SumSeq(SubSeq(ptrTableBucketCounts[t], 1, b))
LBucketBase(t, b) == SumSeq(SubSeq(bucketCounts[t - 1], 1, b - 1))
InLWindow(t, e) ==
    PairsLeftFile[e + 1] + PairsRightFile[e + 1] <
        bucketCounts[t - 1][RBucketOf(t, e)] + P3_EXTRA_L_ENTRIES_TO_LOAD
ReferenceLinePoint(t, e) ==
    LET base  == LBucketBase(t, RBucketOf(t, e))
        left  == PairsLeftFile[e + 1]
        right == left + PairsRightFile[e + 1]
    IN  SquareToLinePoint(LInputFile(t)[base + left + 1], LInputFile(t)[base + right + 1])
EntryOfSrc(src) == CHOOSE e \in 0..(Len(rMapIn) - 1) : rMapIn[e + 1] = src

\* C11: for every r-entry whose left + right offset lies inside the l-window
\* of its bucket (bucketCounts[l][b] + P3_EXTRA_L_ENTRIES_TO_LOAD entries),
\* the line point Step 1 computes from the window equals the line point a
\* reference computes from the whole l-table concatenated in memory.
C11_WindowEqualsWholeTable ==
    \A t \in DOMAIN lpFile : \A el \in Step1Elements(t) :
        (el.src \in 0..(Len(rMapIn) - 1) /\ InLWindow(t, EntryOfSrc(el.src)))
            => el.lp = ReferenceLinePoint(t, EntryOfSrc(el.src))

\* The entry with left 2 and right offset 1 of bucket 0 reads the first
\* l-entry of bucket 1, and the entries of bucket 1 with left 0 read the
\* copied head of their window.
C11_Witness ==
    /\ pc = "TableSecondStep"
    /\ threadCount = 2
    /\ markedIn = 0..4
    /\ \E el \in Step1Elements(table) :
          /\ EntryOfSrc(el.src) = 2
          /\ el.lp = SquareToLinePoint(XFile[3], XFile[4])
    /\ \E el \in Step1Elements(table) :
          /\ EntryOfSrc(el.src) = 3
          /\ el.lp = SquareToLinePoint(XFile[4], XFile[5])

\* C12 as stated: the line point is symmetric in its arguments and two
\* distinct unordered pairs of l-values never have the same line point.
C12_SymmetricInjective ==
    fnVals # <<>> =>
        (fnVals[1] = fnVals[2] <=> {fnArgs.x, fnArgs.y} = {fnArgs.u, fnArgs.v})

\* C12, amended: the line point is symmetric in its arguments, and two
\* distinct unordered pairs of two different l-values each (x # y) never
\* have the same line point.
C12_SymmetricInjectiveOnDistinct ==
    fnVals # <<>> =>
        /\ {fnArgs.x, fnArgs.y} = {fnArgs.u, fnArgs.v} => fnVals[1] = fnVals[2]
        /\ (fnVals[1] = fnVals[2] /\ fnArgs.x # fnArgs.y /\ fnArgs.u # fnArgs.v)
              => {fnArgs.x, fnArgs.y} = {fnArgs.u, fnArgs.v}

C12_Witness ==
    /\ fnVals = <<13, 13>>
    /\ fnArgs = [x |-> 3, y |-> 5, u |-> 5, v |-> 3]

\* The positions of the IO log that hold command cmd on file set file of
\* r-table t.
LogPositions(cmd, file, t) ==
    { i \in 1..Len(ioLog) : ioLog[i].cmd = cmd /\ ioLog[i].file = file /\ ioLog[i].table = t }

\* Every read of a bucket of file set file comes after all count WriteBuckets
\* of the step before, and the buckets are read in index order.
ReadsFollowWrites(file, t, count) ==
    LET reads  == LogPositions("ReadFile", file, t)
        writes == LogPositions("WriteBuckets", file, t)
    IN  \A i \in reads :
            /\ Cardinality({w \in writes : w < i}) = count
            /\ \A w \in writes : w < i
            /\ ioLog[i].bucket = Cardinality({j \in reads : j < i})

\* C13: the buckets of a step are processed in index order, and the IO
\* queue carries out every Step 2 read of a line-point or key bucket after
\* all Step 1 writes to those files (one WriteBuckets per r-bucket), and
\* every Step 3 read of a reverse-map bucket after all Step 2 writes (one
\* WriteBuckets per line-point bucket).
C13_ReadsAfterWritesOfStepBefore ==
    \A t \in DOMAIN lpFile :
        /\ ReadsFollowWrites("LP", t, BB_DP_BUCKET_COUNT)
        /\ ReadsFollowWrites("LP_KEY", t, BB_DP_BUCKET_COUNT)
        /\ ReadsFollowWrites("LP_MAP", t, BB_DPP3_LP_BUCKET_COUNT)

C13_Witness ==
    /\ pc = "ThirdStepReserve"
    /\ threadCount = 2
    /\ Cardinality(LogPositions("ReadFile", "LP", table)) = BB_DPP3_LP_BUCKET_COUNT
    /\ Cardinality(LogPositions("ReadFile", "LP_KEY", table)) = BB_DPP3_LP_BUCKET_COUNT
    /\ LogPositions("ReadFile", "LP_MAP", table) # {}

\* C14: when an IO command has failed during an r-iteration the driver
\* aborts the iteration: it starts no later step and does not publish
\* entryCounts[r].
C14_NoStepAfterIOFailure ==
    [][ioError => /\ ~(pc = "TableSecondStep" /\ pc' # pc)
                  /\ ~(pc = "TableThirdStep" /\ pc' # pc)
                  /\ entryCounts' = entryCounts]_vars

\* C15: the region the constructor hands to the IO queue starts right after
\* the last carved buffer and its size is the size of the whole heap minus
\* the sum of the sizes of all carved buffers, so it ends within the heap.
C15_IOHeapInsideHeap ==
    fnVals # <<>> =>
        /\ fnVals.heap = SumSeq(CarvedSizes(fnArgs))
        /\ fnVals.heapSize = fnArgs.fullHeapSize - SumSeq(CarvedSizes(fnArgs))
        /\ fnVals.heap + fnVals.heapSize <= fnArgs.fullHeapSize

\* C16: ProcessTable(r) writes context.entryCounts[r] once, after Step 3 has
\* returned, with the pruned entry count of r, which is not larger than the
\* count before, and changes the count of no other table: when the driver
\* can do no more in ProcessTable(r), the counts are the counts at its start
\* with the pruned entry count stored for r.
C16_EntryCountWritten ==
    DriverBlocked =>
        /\ entryCounts = [entryCounts0 EXCEPT ![table] = prunedEntryCount]
        /\ prunedEntryCount <= entryCounts0[table]

\* C17: in the Step 1 scatter the control thread commits WriteBuckets and
\* ReleaseBuffer only after every worker has finished its scatter stores:
\* no worker is still in its scatter loop at the commit.
C17_SubmitAfterScatter == submitPending = {}

\* C18: in the Step 2 scatter, for every worker count, every write index is
\* below entryCount (the assertion of line 872 holds and no prefix counter
\* is decremented below 0) and every index of outMap in [0, entryCount) is
\* written exactly once.
C18_MapScatterIsPermutation ==
    (pc = "SecondStepBucket" /\ readFence >= Step2Fence(bucket)) =>
        LET job == CurrentMapJob
        IN  /\ \A e \in MapElements(job) : MapWriteIdx(job, e[1], e[2]) < job.n
            /\ \A idx \in 0..(job.n - 1) :
                  Cardinality({e \in MapElements(job) : MapWriteIdx(job, e[1], e[2]) = idx}) = 1

\* The driver is about to run the ConvertToLPJob of the current bucket.
AtConvertToLP == pc = "BucketFirstStep" /\ readFence >= bucket + 1

\* C19: in the Step 1 scatter the destination indices of different workers
\* are disjoint, the indices of one worker inside one bucket are contiguous,
\* and every index in [0, totalPrunedEntryCount) is written exactly once.
C19_LPScatterIsPermutation ==
    AtConvertToLP =>
        LET job == CurrentJob
            indices(j, b) ==
                { LPDstIndex(job, j, k) :
                    k \in { m \in 1..prunedLength(job, j) : LPBucket(LinePointsOf(job, j)[m]) = b } }
        IN  /\ \A e \in LPElements(job) : \A f \in LPElements(job) :
                  e[1] # f[1] => LPDstIndex(job, e[1], e[2]) # LPDstIndex(job, f[1], f[2])
            /\ \A j \in JobIds(job.tc) : \A b \in 0..(BB_DPP3_LP_BUCKET_COUNT - 1) :
                  \A lo \in indices(j, b) : \A hi \in indices(j, b) :
                      \A i \in lo..hi : i \in indices(j, b)
            /\ \A i \in 0..(totalPrunedEntryCount(job) - 1) :
                  Cardinality({ e \in LPElements(job) : LPDstIndex(job, e[1], e[2]) = i }) = 1

\* Two workers have scattered the five line points of both buckets: every
\* slot of the bucket files holds the element of a different entry.
C19_Witness ==
    /\ pc = "TableSecondStep"
    /\ threadCount = 2
    /\ markedIn = 0..4
    /\ Cardinality({ el.src : el \in Step1Elements(table) }) = 5
    /\ \A el \in Step1Elements(table) : el.lp # Uninit

\* C20: in the Step 1 compaction worker i stores its survivors to the
\* staging slots [dstOffset_i, dstOffset_i + prunedLength_i), where
\* dstOffset_i is the sum of the pruned lengths of the workers before it:
\* the ranges are pairwise disjoint, their union is [0, total pruned
\* count), and the survivors keep the order they have in the bucket.
C20_CompactionRanges ==
    AtConvertToLP =>
        LET job == CurrentJob
            range(j) == dstOffset(job, j)..(dstOffset(job, j) + prunedLength(job, j) - 1)
            total == SumSeq([i \in 1..job.tc |-> prunedLength(job, i - 1)])
            staged == StoreParts(rPrunedMap, job, [i \in 1..job.tc |-> PrunedKeys(job, i - 1)], 0)
            kept == SelectSeq([i \in 1..job.n |-> job.rMap[i]],
                              LAMBDA v : BitFieldGet(job.marks, v))
        IN  /\ \A i \in JobIds(job.tc) : \A j \in JobIds(job.tc) :
                  i # j => range(i) \cap range(j) = {}
            /\ UNION { range(j) : j \in JobIds(job.tc) } = 0..(total - 1)
            /\ Slice(staged, 0, total) = kept

\* Worker 0 has kept row 0 and worker 1 row 2 of bucket 0; they are staged
\* next to each other, in this order.
C20_Witness ==
    /\ pc = "FirstStepLoadNext"
    /\ bucket = 1
    /\ threadCount = 2
    /\ rMapIn = <<0, 1, 2, 3, 4>>
    /\ markedIn = {0, 2, 3}
    /\ Slice(rPrunedMap, 0, 2) = <<0, 2>>

(***************************************************************************)
(* The double buffers of Step 1 and the fences.                            *)
(***************************************************************************)
\* The positions of the IO log that hold a SignalFence of r-table t with an
\* id of at least id, from position from on.
SignalPositions(t, id, from) ==
    { i \in from..Len(ioLog) :
        ioLog[i].cmd = "SignalFence" /\ ioLog[i].table = t /\ ioLog[i].bucket >= id }

\* The first of a non-empty set of positions.
First(positions) == CHOOSE i \in positions : \A j \in positions : i <= j

\* The reads of Step 1 of r-table t that store into a double buffer.
SlotReads(t) ==
    { i \in 1..Len(ioLog) :
        ioLog[i].cmd = "ReadFile" /\ ioLog[i].table = t /\ ioLog[i].buffer # "" }

\* C21: while the worker jobs of a bucket of Step 1 run (the driver has
\* passed the wait for the bucket's fence and has not yet swapped the
\* slots), they read the region slot [0] points to; every read the IO
\* worker may still be carrying out, namely those after the SignalFence the
\* driver waited for, stores into the other region, the one slot [1] points
\* to, and the reads of the bucket itself stored into the region of slot [0].
C21_ReadAheadIntoOtherSlot ==
    AtConvertToLP =>
        LET waited == First(SignalPositions(table, bucket + 1, 1))
            before == { i \in SignalPositions(table, 0, 1) : i < waited }
        IN  /\ slotBuffer[1] # slotBuffer[2]
            /\ \A i \in SlotReads(table) :
                 /\ i > waited => ioLog[i].buffer = slotBuffer[2]
                 /\ (i < waited /\ \A s \in before : s < i) => ioLog[i].buffer = slotBuffer[1]

C21_Witness ==
    /\ AtConvertToLP
    /\ bucket = 1
    /\ slotBuffer = <<"region1", "region0">>
    /\ \E i \in SlotReads(table) : ioLog[i].buffer = "region1" /\ ioLog[i].at = P3_EXTRA_L_ENTRIES_TO_LOAD

\* The read of bucket b of file set file of r-table t (the reads of a file
\* set are issued in bucket order) comes before position waited of the log.
ReadBefore(file, t, b, waited) ==
    \E i \in LogPositions("ReadFile", file, t) :
        /\ i < waited
        /\ Cardinality({ j \in LogPositions("ReadFile", file, t) : j < i }) = b

\* The driver of Step 2 has passed the wait for the fence of its bucket.
AtSortWithKey == pc = "SecondStepBucket" /\ readFence >= Step2Fence(bucket)

\* C22: when the driver has passed the wait for the fence of bucket b, the
\* IO queue was given every read of bucket b before the SignalFence that
\* ended the wait, so under FIFO execution all of them are complete: in
\* Step 1 the l-values, the left pointers, the right offsets and the r-map
\* (for bucket 0 the marked bitmap too), in Step 2 the line points and the
\* keys.
C22_ReadsCompleteWhenFencePassed ==
    /\ AtConvertToLP =>
         LET waited == First(SignalPositions(table, bucket + 1, 1))
         IN  /\ \A file \in {"L_MAP", "R_PTRS_R", "R_PTRS_L", "R_MAP"} :
                   ReadBefore(file, table, bucket, waited)
             /\ bucket = 0 => ReadBefore("MARKED", table, 0, waited)
    /\ AtSortWithKey =>
         LET start  == First(LogPositions("ReadFile", "LP", table))
             waited == First(SignalPositions(table, Step2Fence(bucket), start))
         IN  /\ ReadBefore("LP", table, bucket, waited)
             /\ ReadBefore("LP_KEY", table, bucket, waited)

C22_Witness ==
    /\ AtSortWithKey
    /\ bucket = 1
    /\ lpBucketCounts[2] > 0
    /\ Cardinality(LogPositions("ReadFile", "LP_KEY", table)) = 3

(***************************************************************************)
(* The l-input of Step 1.                                                  *)
(***************************************************************************)
\* C23: the l-input of Step 1 of the iteration after r-table r is the dense
\* map file Step 3 of r wrote: when the driver can do no more in the
\* iteration of r, the file Step 1 of r + 1 is to read holds the u32 entries
\* Step 3 wrote and nothing else, and their number is the number of l-values
\* Step 1 of r + 1 requests over all its buckets.
C23_LInputIsDenseMapOfTableBefore ==
    DriverBlocked =>
        /\ LInputFile(table + 1) = denseFile[table]
        /\ SumSeq(LRequests(bucketCounts[table], entryCounts[table])) = Len(denseFile[table])

\* C24: whenever the bucket counts of the l-table sum to its entry count,
\* the l-length requested for the last bucket is the entry count minus the
\* l-lengths requested for the buckets before it, as a number (the cast to
\* uint32 changes nothing), and the l-lengths requested sum to the entry
\* count.
C24_LastLLengthExact ==
    (fnVals # <<>> /\ SumSeq(fnArgs.lCounts) = fnArgs.lTotal) =>
        LET last    == BB_DP_BUCKET_COUNT
            earlier == SumSeq(SubSeq(fnVals, 1, last - 1))
        IN  /\ fnVals[last] = NextLBucketLengthNoCast(fnArgs.lCounts, fnArgs.lTotal,
                                                      last - 1, earlier)
            /\ SumSeq(fnVals) = fnArgs.lTotal

\* The l-value reads of Step 1 of r-table t, and the bucket a read is for
\* (the reads are issued in bucket order).
LReads(t) == LogPositions("ReadFile", "L_MAP", t)
LReadBucket(t, i) == Cardinality({ j \in LReads(t) : j < i })

\* C25 as stated: on every bucket of Step 1, bucket 0 included, the l-values
\* read from disk are stored at offset P3_EXTRA_L_ENTRIES_TO_LOAD of the
\* l-map buffer.
C25_LReadAtExtraOffset ==
    \A t \in DOMAIN lpFile : \A i \in LReads(t) : ioLog[i].at = P3_EXTRA_L_ENTRIES_TO_LOAD

\* C25, amended: the l-values of every bucket after bucket 0 are stored at
\* offset P3_EXTRA_L_ENTRIES_TO_LOAD of the buffer of slot [1]; those of
\* bucket 0 are stored at offset 0 of the buffer of slot [0].
C25_LReadAtExtraOffsetAfterFirst ==
    \A t \in DOMAIN lpFile : \A i \in LReads(t) :
        IF LReadBucket(t, i) = 0
          THEN ioLog[i].at = 0
          ELSE ioLog[i].at = P3_EXTRA_L_ENTRIES_TO_LOAD

C25_Witness ==
    /\ pc = "BucketFirstStep"
    /\ bucket = 0
    /\ \E i \in LReads(table) : LReadBucket(table, i) = 1 /\ ioLog[i].at = P3_EXTRA_L_ENTRIES_TO_LOAD
    /\ lMap[2][P3_EXTRA_L_ENTRIES_TO_LOAD + 1] = XFile[bucketCounts[1][1] + P3_EXTRA_L_ENTRIES_TO_LOAD + 1]

(***************************************************************************)
(* The sorted positions of the reverse map.                                *)
(***************************************************************************)
\* The sorted positions (high 32 bits) of the records of the reverse-map
\* files of r-table t, as a bag: the number of records per position.
PositionCount(t, p) ==
    Cardinality({ r \in MapRecords(t) :
                    mapFile[t][r[1]][r[2]] # Uninit /\ RecordPos(mapFile[t][r[1]][r[2]]) = p })

\* C26: in Step 2 the entry offset of line-point bucket b is the sum of the
\* counts of the line-point buckets before b, and once Step 2 has run over
\* all buckets the reverse-map files of the r-table hold exactly one record
\* for each sorted position 0..prunedEntryCount-1 and no other record.
C26_SortedPositionsBijective ==
    /\ pc \in {"SecondStepLoadNext", "SecondStepBucket"} =>
          entryOffset = SumSeq(SubSeq(lpBucketCounts, 1, bucket))
    /\ pc \in AfterStep2 =>
          /\ Cardinality(MapRecords(table)) = prunedEntryCount
          /\ \A p \in 0..(prunedEntryCount - 1) : PositionCount(table, p) = 1

\* Elements e and f of a Step 2 job go to the same reverse-map bucket.
SameMapBucket(job, e, f) ==
    MapBucket(MapWrittenKeys(job, e[1])[e[2]]) = MapBucket(MapWrittenKeys(job, f[1])[f[2]])

\* C27 as stated: of two records of a sorted line-point bucket that go to
\* the same reverse-map bucket, the one with the lower sorted position is
\* stored at the lower index, so the records of a reverse-map bucket appear
\* in strictly increasing order of sorted position.
C27_MapRecordsIncreasing ==
    AtSortWithKey =>
        LET job == CurrentMapJob
        IN  \A e, f \in MapElements(job) :
              (SameMapBucket(job, e, f)
                  /\ RecordPos(MapRecord(job, e[1], e[2])) < RecordPos(MapRecord(job, f[1], f[2])))
              => MapWriteIdx(job, e[1], e[2]) < MapWriteIdx(job, f[1], f[2])

\* C27, amended: a worker stores the records it emits into one reverse-map
\* bucket at descending indices: each goes to the index just below that of
\* the record of the same bucket it emitted before (modulo 2^32), so within
\* the slice of a worker the sorted positions decrease.
C27_MapRecordsDescendingPerWorker ==
    AtSortWithKey =>
        LET job == CurrentMapJob
        IN  \A e, f \in MapElements(job) :
              (/\ e[1] = f[1]
               /\ e[2] < f[2]
               /\ SameMapBucket(job, e, f)
               /\ \A g \in MapElements(job) :
                     (g[1] = e[1] /\ e[2] < g[2] /\ g[2] < f[2]) => ~SameMapBucket(job, e, g))
              => /\ MapWriteIdx(job, f[1], f[2]) = (MapWriteIdx(job, e[1], e[2]) - 1) % U32
                 /\ RecordPos(MapRecord(job, e[1], e[2])) < RecordPos(MapRecord(job, f[1], f[2]))

C27_Witness ==
    /\ AtSortWithKey
    /\ threadCount = 1
    /\ LET job == CurrentMapJob
       IN  \E e, f \in MapElements(job) :
             /\ e[2] < f[2]
             /\ SameMapBucket(job, e, f)
             /\ MapWriteIdx(job, f[1], f[2]) < MapWriteIdx(job, e[1], e[2])

\* C28: the check of a debug build that precedes the computation of the
\* line points of a bucket fails exactly when some r-entry of the bucket
\* has left + right offset of bucketCounts[lTable][bucket] +
\* P3_EXTRA_L_ENTRIES_TO_LOAD or more, whichever position the entry has;
\* for a bucket without entries it does not fail.
C28_DebugCheckFindsEveryPair ==
    fnVals # <<>> =>
        /\ ~fnVals.crashed
        /\ fnVals.failed <=>
              \E i \in 1..fnArgs.n :
                  fnArgs.left[i] + fnArgs.right[i] >= fnArgs.lCount + P3_EXTRA_L_ENTRIES_TO_LOAD

\* The counts ProcessTable resets are all 0.
CountsAreZero ==
    /\ prunedEntryCount = 0
    /\ \A b \in LPBuckets : lpBucketCounts[b] = 0
    /\ \A b \in MapBuckets : lMapBucketCounts[b] = 0

\* C29: whatever the members held before, when ProcessTable has done its
\* resets the pruned entry count and every entry of lpBucketCounts and of
\* lMapBucketCounts are 0 and the read fence is at its start value, and
\* when TableFirstStep comes to its bucket loop the r-table offset is 0 too
\* and the counts still are.
C29_PerTableReset ==
    /\ pc = "TableFirstStep" => (CountsAreZero /\ readFence = 0)
    /\ (pc = "FirstStepLoadNext" /\ bucket = 0) => (CountsAreZero /\ rTableOffset = 0)

C29_Witness ==
    /\ pc = "TableFirstStep"
    /\ rTableOffset = ResetMaxLeft
    /\ CountsAreZero
    /\ readFence = 0

(***************************************************************************)
(* The buffers of the IO queue.                                            *)
(***************************************************************************)
\* The positions of the log that hold the call cmd (GetBuffer or
\* ReleaseBuffer) for loan l: a buffer name, an r-table and a bucket.
LoanCalls(cmd, l) ==
    { i \in 1..Len(ioLog) :
        /\ ioLog[i].cmd = cmd
        /\ ioLog[i].buffer = l[1]
        /\ ioLog[i].table = l[2]
        /\ ioLog[i].bucket = l[3] }

\* The buffers obtained with GetBuffer: name, r-table and bucket.
Loans ==
    { <<ioLog[i].buffer, ioLog[i].table, ioLog[i].bucket>> :
        i \in { j \in 1..Len(ioLog) : ioLog[j].cmd = "GetBuffer" } }

\* Loan l is out (obtained and not released) when the entry at position at
\* of the log is enqueued.
LoanOut(l, at) ==
    /\ \E i \in LoanCalls("GetBuffer", l) : i < at
    /\ \A i \in LoanCalls("ReleaseBuffer", l) : at < i

\* Every buffer is obtained once and released at most once, after it was
\* obtained, and a command that uses a buffer is enqueued while the buffer
\* is out.
LoansInOrder ==
    /\ \A l \in Loans :
          /\ Cardinality(LoanCalls("GetBuffer", l)) = 1
          /\ Cardinality(LoanCalls("ReleaseBuffer", l)) <= 1
          /\ \A i \in LoanCalls("GetBuffer", l) : \A j \in LoanCalls("ReleaseBuffer", l) : i < j
    /\ \A i \in 1..Len(ioLog) : \A name \in BuffersUsed(ioLog[i]) :
          \E l \in Loans :
              /\ l[1] = name
              /\ l[2] = ioLog[i].table
              /\ ioLog[i].cmd = "ReadFile" => l[3] = ioLog[i].bucket
              /\ LoanOut(l, i)

\* C30: the buffers of the IO queue are obtained and released in order, and
\* when the driver can do no more in an r-iteration every buffer obtained
\* with GetBuffer has been passed to ReleaseBuffer.
C30_BufferLoansBalance ==
    /\ LoansInOrder
    /\ (pc = "Run" \/ pc = "Done" \/ DriverBlocked) =>
          \A l \in Loans : LoanCalls("ReleaseBuffer", l) # {}

(***************************************************************************)
(* The assertions of Step 3.                                               *)
(***************************************************************************)
\* The job that unpacked the k-th bucket of the history.
UnpackedJob(k) ==
    [ bucket |-> unpacked[k].bucket, n |-> Len(unpacked[k].mapSrc), tc |-> threadCount,
      mapSrc |-> unpacked[k].mapSrc ]

\* TableThirdStep, lines 1038-1049: the low 32 bits of every record of the
\* bucket are below the fixed bucket length.
TestBlockAssertionHolds(job) ==
    \A i \in 1..job.n : job.mapSrc[i][1] < fixedBucketSize

\* LPUnpackMapJob::Run, line 942: ASSERT( idx < this->entryCount ) for every
\* record of every worker.
UnpackAssertionHolds(job) ==
    \A i \in UnpackElements(job) : UnpackIdx(job, job.mapSrc[i]) < job.n

\* C31: for every bucket Step 3 has unpacked of an r-table whose bitmap
\* prunes some entries, the assertions executed held: the low 32 bits of
\* each record are below the fixed bucket length and each unpack index is
\* below the record count of the bucket.
C31_Step3AssertionsHold ==
    (\E e \in 0..(entryCounts0[Table2] - 1) : e \notin markedIn) =>
        \A k \in 1..Len(unpacked) :
            /\ TestBlockAssertionHolds(UnpackedJob(k))
            /\ UnpackAssertionHolds(UnpackedJob(k))

(***************************************************************************)
(* StackAllocator.                                                         *)
(***************************************************************************)
\* The regions of calls k and m have a byte in common.
RegionsOverlap(k, m) ==
    /\ fnVals[k].offset < fnVals[m].offset + fnVals[m].size
    /\ fnVals[m].offset < fnVals[k].offset + fnVals[k].size

\* C32: every region a call returned (no assertion failed) starts at a
\* multiple of the alignment asked for, lies inside [0, capacity) and
\* overlaps no region returned before; a call whose region does not fit
\* behind the padding fails an assertion.
C32_AllocatorRegions ==
    \A k \in 1..Len(fnVals) :
        /\ ~fnVals[k].failed =>
              /\ fnVals[k].offset % fnVals[k].alignment = 0
              /\ fnVals[k].offset + fnVals[k].size <= fnArgs.capacity
              /\ \A m \in 1..(k - 1) : ~RegionsOverlap(k, m)
        /\ (RoundUpToNextBoundary(AllocatorSize(SubSeq(fnVals, 1, k - 1)), fnVals[k].alignment)
               + fnVals[k].size > fnArgs.capacity) => fnVals[k].failed
=============================================================================
